---- MODULE Spec2Model ----
(***************************************************************************)
(* little-share: the realtime peer-communication subsystem.                *)
(*                                                                         *)
(* The store (items, requests, push_subscriptions, messages) is modelled   *)
(* as relational tables (sets of rows) guarded by the row-level policies   *)
(* of the migrations; the send-push-notification edge function is one      *)
(* action per HTTP exchange; the chat dialog is a client with a local      *)
(* message list, a list call in flight and a change-notification channel.  *)
(***************************************************************************)
EXTENDS Integers, Sequences, FiniteSets, TLC

VARIABLES
    items,               \* public.items rows            [id, donor_id]
    requests,            \* public.requests rows         [id, item_id, receiver_id, status]
    push_subscriptions,  \* public.push_subscriptions    [user_id, endpoint]
    vapidConfigured,     \* VAPID_PRIVATE_KEY / VAPID_PUBLIC_KEY present in the function's env
    exchange,            \* the most recent operation and what it returned
    messages,            \* public.messages rows        [id, request_id, sender_id, content, created_at, is_read]
    notifications,       \* public.notifications rows   [id, user_id, type, related_request_id, related_item_id]
    chat_presence,       \* public.chat_presence rows   [user_id, request_id, is_online, last_seen]
    live_locations,      \* public.live_locations rows  [user_id, request_id, position, is_sharing, expires_at]
    now,                 \* the clock behind now() and new Date()
    dialog,              \* ChatDialog props            [open, requestId, currentUserId]
    dialogMessages,      \* ChatDialog's messages state
    fetches,             \* list calls of the dialog on their way: sent, or answered with rows
    subscribed,          \* the dialog's channel has joined
    channel,             \* change events queued for the dialog's channel
    mounted,             \* the ChatDialog component, with its hooks, is mounted
    isSharing,           \* useLiveLocation: useState(false)
    otherUserLocation,   \* useLiveLocation: the peer's session as last seen, or none
    currentLocation,     \* useLiveLocation: the own position as last fixed, or none
    watchIdRef,          \* useLiveLocation: watchIdRef.current
    watches,             \* navigator.geolocation: the position watches that are active
    fixes,               \* navigator.geolocation: getCurrentPosition calls not yet answered
    locSubscribed,       \* the live_location channel of the hook exists
    locChannel,          \* change events queued for the live_location channel
    otherUserPresence,   \* useChatPresence: useState({ isOnline: false, lastSeen: null })
    presenceSubscribed,  \* the presence channel of the hook exists, visibilitychange is listened to
    presenceChannel,     \* change events queued for the presence channel
    presenceWrites,      \* presence upserts of the dialog's user sent and not yet run by the store
    hidden               \* document.hidden

chatVars == <<messages, notifications, chat_presence, live_locations, now>>

dialogVars == <<dialog, dialogMessages, fetches, subscribed, channel>>

locVars == <<mounted, isSharing, otherUserLocation, currentLocation, watchIdRef,
             watches, fixes, locSubscribed, locChannel>>

presVars == <<otherUserPresence, presenceSubscribed, presenceChannel, presenceWrites, hidden>>

vars == <<items, requests, push_subscriptions, vapidConfigured, exchange, chatVars, dialogVars,
          locVars, presVars>>

-----------------------------------------------------------------------------
(* Identity universes and bounds *)

Users == {"u1", "u2", "u3"}
Endpoints == {"e1", "e2"}
ItemIds == {1}
RequestIds == {1, 2}
\* the requests the push gate is exercised over
GateRequestIds == {1}

\* longest user_ids list enumerated entry by entry
MaxTargets == 2
\* most rows of push_subscriptions at a time
MaxSubs == 2

NoUser == "nobody"
Statuses == {"pending", "accepted", "declined", "completed"}

-----------------------------------------------------------------------------
(* Store helpers *)

\* public.item_donor_id(_item_id): donor of the item, NULL when there is none
item_donor_id(iid) ==
    IF \E i \in items : i.id = iid
    THEN (CHOOSE i \in items : i.id = iid).donor_id
    ELSE NoUser

\* gen_random_uuid(): a key not in use, the least one to keep the model canonical
FreshId(universe, rows) ==
    CHOOSE k \in universe : /\ \A r \in rows : r.id # k
                            /\ \A j \in universe : (\A r \in rows : r.id # j) => k <= j

HasFree(universe, rows) == \E k \in universe : \A r \in rows : r.id # k

\* "Request participants can update" USING clause
RequestUpdatePolicy(actor, r) ==
    actor = r.receiver_id \/ actor = item_donor_id(r.item_id)

\* the most recent operation had nothing to report
Idle == [kind |-> "idle"]

\* no chat has taken place
InitChatEmpty ==
    /\ messages = {}
    /\ notifications = {}
    /\ chat_presence = {}
    /\ live_locations = {}
    /\ now = 0

\* ChatDialog as mounted: closed, useState<Message[]>([]), nothing on the wire
InitDialogClosed ==
    /\ dialog = [open |-> FALSE, requestId |-> 0, currentUserId |-> NoUser]
    /\ dialogMessages = <<>>
    /\ fetches = <<>>
    /\ subscribed = FALSE
    /\ channel = <<>>

\* watchIdRef = useRef<number | null>(null): no watch is held
NoWatch == 0

\* useLiveLocation as mounted: nothing shared, nothing seen, no channel yet
InitLocationIdle ==
    /\ mounted = TRUE
    /\ isSharing = FALSE
    /\ otherUserLocation = {}
    /\ currentLocation = {}
    /\ watchIdRef = NoWatch
    /\ watches = {}
    /\ fixes = <<>>
    /\ locSubscribed = FALSE
    /\ locChannel = <<>>

\* useChatPresence as mounted on a visible page: the peer unknown, no channel
InitPresenceIdle ==
    /\ otherUserPresence = [isOnline |-> FALSE, lastSeen |-> {}]
    /\ presenceSubscribed = FALSE
    /\ presenceChannel = <<>>
    /\ presenceWrites = <<>>
    /\ hidden = FALSE

-----------------------------------------------------------------------------
(* Listing and request handlers *)

\* AddItem page: insert into items with donor_id = the signed-in user
AddItem(u) ==
    /\ HasFree(ItemIds, items)
    /\ items' = items \cup {[id |-> FreshId(ItemIds, items), donor_id |-> u]}
    /\ exchange' = Idle
    /\ UNCHANGED <<requests, push_subscriptions, vapidConfigured, chatVars, dialogVars, locVars, presVars>>

\* ItemDetail.handleRequest: the button shows for a non-owner with no request yet;
\* ids is the part of the key space the new row's id is drawn from
handleRequest(u, iid, ids) ==
    /\ \E i \in items : i.id = iid
    /\ item_donor_id(iid) # u
    /\ ~ \E r \in requests : r.item_id = iid /\ r.receiver_id = u
    /\ HasFree(ids, requests)
    /\ requests' = requests \cup
          {[id |-> FreshId(ids, requests), item_id |-> iid,
            receiver_id |-> u, status |-> "pending"]}
    /\ exchange' = Idle
    /\ UNCHANGED <<items, push_subscriptions, vapidConfigured, chatVars, dialogVars, locVars, presVars>>

\* update requests set status = s where id = rid, as actor
UpdateStatus(actor, rid, s) ==
    {IF r.id = rid /\ RequestUpdatePolicy(actor, r)
     THEN [r EXCEPT !.status = s] ELSE r : r \in requests}

\* Requests.handleAccept: offered to the donor on a card of the incoming list;
\* the card is drawn from the page's fetched copy, which may be stale, so the
\* stored status is whatever it is when the update arrives.
handleAccept(actor, rid) ==
    /\ \E r \in requests : r.id = rid /\ item_donor_id(r.item_id) = actor
    /\ requests' = UpdateStatus(actor, rid, "accepted")
    /\ requests' # requests
    /\ exchange' = Idle
    /\ UNCHANGED <<items, push_subscriptions, vapidConfigured, chatVars, dialogVars, locVars, presVars>>

\* Requests.handleDecline
handleDecline(actor, rid) ==
    /\ \E r \in requests : r.id = rid /\ item_donor_id(r.item_id) = actor
    /\ requests' = UpdateStatus(actor, rid, "declined")
    /\ requests' # requests
    /\ exchange' = Idle
    /\ UNCHANGED <<items, push_subscriptions, vapidConfigured, chatVars, dialogVars, locVars, presVars>>

\* usePushNotifications.subscribe: upsert on (user_id, endpoint)
subscribe(u, e) ==
    /\ [user_id |-> u, endpoint |-> e] \notin push_subscriptions
    /\ Cardinality(push_subscriptions) < MaxSubs
    /\ push_subscriptions' = push_subscriptions \cup {[user_id |-> u, endpoint |-> e]}
    /\ exchange' = Idle
    /\ UNCHANGED <<items, requests, vapidConfigured, chatVars, dialogVars, locVars, presVars>>

\* usePushNotifications.unsubscribe: delete where user_id = u and endpoint = e
unsubscribe(u, e) ==
    /\ [user_id |-> u, endpoint |-> e] \in push_subscriptions
    /\ push_subscriptions' = push_subscriptions \ {[user_id |-> u, endpoint |-> e]}
    /\ exchange' = Idle
    /\ UNCHANGED <<items, requests, vapidConfigured, chatVars, dialogVars, locVars, presVars>>

-----------------------------------------------------------------------------
(* send-push-notification: the request as it arrives *)

MAX_TITLE_LENGTH == 100
MAX_BODY_LENGTH == 500
MAX_USER_IDS == 50

\* a JSON value in the place of title / body: its typeof and, for a string, its length
TextVal(type, length) == [type |-> type, length |-> length]

\* the text of an id, as the classes of its characters: "h" a hex digit of
\* either case, "-" a dash, "x" any other character
Hex(n) == [k \in 1..n |-> "h"]

UuidText == Hex(8) \o <<"-">> \o Hex(4) \o <<"-">> \o Hex(4) \o <<"-">> \o Hex(4) \o <<"-">> \o Hex(12)

Shapes == {"uuid", "short", "long", "nonhex", "nodash", "number"}

ShapeText ==
    [shape \in Shapes |->
        CASE shape = "uuid"   -> UuidText
          [] shape = "short"  -> SubSeq(UuidText, 1, Len(UuidText) - 1)
          [] shape = "long"   -> UuidText \o <<"h">>
          [] shape = "nonhex" -> [UuidText EXCEPT ![1] = "x"]
          [] shape = "nodash" -> [UuidText EXCEPT ![9] = "h"]
          [] OTHER            -> <<>>]

ShapeChars(shape) == ShapeText[shape]

\* an entry of user_ids: whose id it spells (NoUser: nobody's) and how it is written
Entry(who, shape) == [who |-> who, shape |-> shape]

\* /^[0-9a-f]{8}-[0-9a-f]{4}-[0-9a-f]{4}-[0-9a-f]{4}-[0-9a-f]{12}$/i .test(userId)
uuidRegexTest(chars) ==
    /\ Len(chars) = 36
    /\ \A k \in 1..Len(chars) :
          IF k \in {9, 14, 19, 24} THEN chars[k] = "-" ELSE chars[k] = "h"

\* typeof userId !== "string" || !uuidRegex.test(userId)
BadUserId(e) == e.shape = "number" \/ ~uuidRegexTest(ShapeChars(e.shape))

\* the Authorization header: absent, present without the "Bearer " prefix, or a bearer token
Header(kind, token) == [kind |-> kind, token |-> token]

\* !authHeader || !authHeader.startsWith("Bearer ")
HeaderRejected(h) == h.kind # "bearer"

\* supabaseUser.auth.getUser(): the user the token was issued to, none for any other token
getUser(token) == IF token \in Users THEN token ELSE NoUser

\* a handler that trusts an id sent in the body
CallerIdFromBody(req) == req.payload.caller_id

\* const callerId = user.id
CallerId(req) == getUser(req.auth.token)

\* !payload.title || typeof payload.title !== "string"
TextMissing(t) == t.type # "string" \/ t.length = 0

\* a limit that also rejects a text of exactly the limit
ExceedsInclusive(length, limit) == length >= limit

\* payload.title.length > MAX_TITLE_LENGTH (and the like for body and user_ids)
Exceeds(length, limit) == length > limit

\* the input validation chain, in the order of the code: the error it returns, "" for none
ValidationError(p) ==
    IF TextMissing(p.title) THEN "Invalid input: title is required"
    ELSE IF TextMissing(p.body) THEN "Invalid input: body is required"
    ELSE IF Exceeds(p.title.length, MAX_TITLE_LENGTH) THEN "Invalid input: title exceeds"
    ELSE IF Exceeds(p.body.length, MAX_BODY_LENGTH) THEN "Invalid input: body exceeds"
    ELSE IF ~p.user_ids.isArray \/ Len(p.user_ids.list) = 0
         THEN "Invalid input: user_ids must be a non-empty array"
    ELSE IF Exceeds(Len(p.user_ids.list), MAX_USER_IDS) THEN "Invalid input: user_ids exceeds maximum"
    ELSE IF \E k \in 1..Len(p.user_ids.list) : BadUserId(p.user_ids.list[k])
         THEN "Invalid input: user_ids must contain valid UUIDs"
    ELSE ""

-----------------------------------------------------------------------------
(* send-push-notification: the authorization loop *)

\* items where donor_id = u, their ids
ItemsOf(u) == {i.id : i \in {j \in items : j.donor_id = u}}

\* requests where item_id in itemIds and receiver_id = u, limit 1: is there a row
RequestFrom(itemIds, u) == \E r \in requests : r.item_id \in itemIds /\ r.receiver_id = u

\* a loop that lacks the second pair of queries (the caller requested the target's item)
TargetAuthorizedOneWay(callerId, targetUserId) ==
    \/ targetUserId = callerId
    \/ ItemsOf(callerId) # {} /\ RequestFrom(ItemsOf(callerId), targetUserId)

\* the body of the loop for one target
TargetAuthorized(callerId, targetUserId) ==
    \/ targetUserId = callerId
    \/ ItemsOf(callerId) # {} /\ RequestFrom(ItemsOf(callerId), targetUserId)
    \/ ItemsOf(targetUserId) # {} /\ RequestFrom(ItemsOf(targetUserId), callerId)

\* authorizedUserIds after the loop: the targets that passed, in the order given
Authorize(callerId, targets) ==
    LET Passes(t) == TargetAuthorized(callerId, t)
    IN  SelectSeq(targets, Passes)

\* a gate that lets an empty list through
GateNeverCloses(authorizedUserIds) == FALSE

\* authorizedUserIds.length === 0
GateClosed(authorizedUserIds) == Len(authorizedUserIds) = 0

\* the tables the loop queries
LoopReads(callerId, targets) ==
    LET others == {targets[k] : k \in 1..Len(targets)} \ {callerId}
    IN  (IF others # {} THEN {"items"} ELSE {})
        \cup (IF \E t \in others :
                    \/ ItemsOf(callerId) # {}
                    \/ ItemsOf(t) # {}
              THEN {"requests"} ELSE {})

-----------------------------------------------------------------------------
(* send-push-notification: the send loop *)

Outcomes == {"ok", "410", "404", "500"}

RECURSIVE SeqOf(_)
\* the rows of a select, in the order the store returns them
SeqOf(S) ==
    IF S = {} THEN <<>>
    ELSE LET x == CHOOSE y \in S : TRUE IN <<x>> \o SeqOf(S \ {x})

Range(s) == {s[k] : k \in 1..Len(s)}

\* a select that lacks the .in("user_id", ...) filter
SubscriptionsOfAnyone(authorizedUserIds) == SeqOf(push_subscriptions)

\* push_subscriptions where user_id in authorizedUserIds
SubscriptionsOf(authorizedUserIds) ==
    SeqOf({s \in push_subscriptions : s.user_id \in Range(authorizedUserIds)})

\* error.statusCode === 410 || error.statusCode === 404
Expired(outcome) == outcome \in {"410", "404"}

\* one webPush.sendNotification per fetched row, with what the push service answered
Attempts(subs, answer) ==
    [k \in 1..Len(subs) |-> [row |-> subs[k], outcome |-> answer[subs[k].endpoint]]]

\* delete from push_subscriptions where endpoint = the endpoint of an expired attempt
AfterCleanup(attempts) ==
    {s \in push_subscriptions :
        ~ \E k \in 1..Len(attempts) :
              Expired(attempts[k].outcome) /\ attempts[k].row.endpoint = s.endpoint}

Count(attempts, good) ==
    Cardinality({k \in 1..Len(attempts) : (attempts[k].outcome = "ok") = good})

-----------------------------------------------------------------------------
(* send-push-notification: the handler *)

\* what the exchange leaves behind: the response (status, the fields of its
\* JSON body) and what the handler did on the way (req.json() called, tables
\* queried, the caller id it used, the authorized list, the deliveries)
Exchange(req, status, success, error, fields, did) ==
    [kind |-> "push", req |-> req, status |-> status, success |-> success,
     error |-> error, fields |-> fields,
     sent |-> did.sent, failed |-> did.failed,
     authorized |-> Len(did.authorizedUserIds), total |-> did.total,
     callerId |-> did.callerId, parsed |-> did.parsed, reads |-> did.reads,
     authorizedUserIds |-> did.authorizedUserIds, attempts |-> did.attempts,
     before |-> push_subscriptions]

Nothing ==
    [sent |-> 0, failed |-> 0, total |-> 0, callerId |-> NoUser, parsed |-> FALSE,
     reads |-> {}, authorizedUserIds |-> <<>>, attempts |-> <<>>]

\* the targets the loop iterates over: the ids the entries spell
Targets(p) == [k \in 1..Len(p.user_ids.list) |-> p.user_ids.list[k].who]

\* serve(async (req) => ...): the exchange for a request, given what the push
\* service answers for each endpoint
HandlePush(req, answer) ==
    IF HeaderRejected(req.auth)
    THEN Exchange(req, 401, FALSE, "Unauthorized: Missing authentication", {"success", "error"}, Nothing)
    ELSE IF getUser(req.auth.token) = NoUser
    THEN Exchange(req, 401, FALSE, "Unauthorized: Invalid authentication", {"success", "error"}, Nothing)
    ELSE LET callerId == CallerId(req)
             known == [Nothing EXCEPT !.callerId = callerId]
    IN  IF ~vapidConfigured
        THEN Exchange(req, 500, FALSE, "VAPID keys not configured", {"success", "error"}, known)
        ELSE LET p == req.payload
                 read == [known EXCEPT !.parsed = TRUE]
        IN  IF p.json # "object"
            THEN Exchange(req, 500, FALSE, "Unexpected token", {"success", "error"}, read)
            ELSE IF ValidationError(p) # ""
            THEN Exchange(req, 400, FALSE, ValidationError(p), {"success", "error"}, read)
            ELSE LET targets == Targets(p)
                     authorizedUserIds == Authorize(callerId, targets)
                     gated == [read EXCEPT !.reads = LoopReads(callerId, targets),
                                           !.authorizedUserIds = authorizedUserIds,
                                           !.total = Len(targets)]
            IN  IF GateClosed(authorizedUserIds)
                THEN Exchange(req, 403, FALSE, "Forbidden: Not authorized to notify these users",
                              {"success", "error"}, gated)
                ELSE LET subscriptions == SubscriptionsOf(authorizedUserIds)
                         looked == [gated EXCEPT !.reads = @ \cup {"push_subscriptions"}]
                IN  IF Len(subscriptions) = 0
                    THEN Exchange(req, 200, TRUE, "", {"success", "sent", "message"}, looked)
                    ELSE LET attempts == Attempts(subscriptions, answer)
                             done == [looked EXCEPT !.attempts = attempts,
                                                    !.sent = Count(attempts, TRUE),
                                                    !.failed = Count(attempts, FALSE)]
                    IN  Exchange(req, 200, TRUE, "",
                                 {"success", "sent", "failed", "authorized", "total", "message"},
                                 done)

\* one HTTP exchange with the edge function, from arrival to response
ServePush(req, answer) ==
    /\ exchange = Idle
    /\ \A e \in Endpoints :
          (\A s \in push_subscriptions : s.endpoint # e) => answer[e] = "ok"
    /\ exchange' = HandlePush(req, answer)
    /\ push_subscriptions' = AfterCleanup(exchange'.attempts)
    /\ UNCHANGED <<items, requests, vapidConfigured, chatVars, dialogVars, locVars, presVars>>

\* the response reaches the caller (sendPushNotification logs an error and returns)
Return ==
    /\ exchange # Idle
    /\ exchange' = Idle
    /\ UNCHANGED <<items, requests, push_subscriptions, vapidConfigured, chatVars, dialogVars, locVars, presVars>>

-----------------------------------------------------------------------------
(* The requests a client can put on the wire *)

\* user_ids lists of 1..n well-formed ids
IdLists(n) ==
    UNION {[1..k -> {Entry(u, "uuid") : u \in Users}] : k \in 1..n}

\* s padded with its last entry to n entries
Padded(s, n) == [k \in 1..n |-> IF k <= Len(s) THEN s[k] ELSE s[Len(s)]]

Payload(title, body, isArray, list, caller) ==
    [json |-> "object", title |-> title, body |-> body,
     user_ids |-> [isArray |-> isArray, list |-> list], caller_id |-> caller]

\* what supabase.functions.invoke sends for a signed-in user: a well-formed
\* payload under that user's token
GateRequests ==
    {[auth |-> Header("bearer", u),
      payload |-> Payload(TextVal("string", 1), TextVal("string", 1), TRUE, l, NoUser)] :
        u \in Users, l \in IdLists(MaxTargets)}

\* anything a client can send: every header, every kind of title and body, lists
\* that are missing, empty, malformed in an entry, or at and over the cap
Headers ==
    {Header("missing", "none"), Header("basic", "none")}
        \cup {Header("bearer", t) : t \in Users \cup {"expired"}}

Texts(limit) ==
    {TextVal("undefined", 0), TextVal("number", 0), TextVal("string", 0),
     TextVal("string", limit), TextVal("string", limit + 1)}

WireLists ==
    {<<>>} \cup IdLists(1) \cup {<<Entry(NoUser, "uuid")>>}
        \cup {<<Entry("u2", sh)>> : sh \in Shapes}
        \cup {<<Entry("u2", "uuid"), Entry("u3", sh)>> : sh \in Shapes}
        \cup {Padded(<<Entry(u, "uuid")>>, n) : u \in Users, n \in {MAX_USER_IDS, MAX_USER_IDS + 1}}

WireRequests ==
    {[auth |-> h, payload |-> Payload(t, b, TRUE, l, c)] :
        h \in Headers, t \in Texts(MAX_TITLE_LENGTH), b \in Texts(MAX_BODY_LENGTH),
        l \in WireLists, c \in Users}
    \cup {[auth |-> h, payload |-> Payload(t, b, FALSE, <<>>, c)] :
        h \in Headers, t \in Texts(MAX_TITLE_LENGTH), b \in Texts(MAX_BODY_LENGTH),
        c \in Users}
    \cup {[auth |-> h,
           payload |-> [Payload(TextVal("string", 1), TextVal("string", 1), TRUE,
                                <<Entry("u2", "uuid")>>, "u1") EXCEPT !.json = "malformed"]] :
        h \in Headers}

-----------------------------------------------------------------------------
(* The push endpoint under arbitrary requests *)

\* u1 has listed an item and u2 has asked for it; all three have registrations;
\* the function is deployed with or without its VAPID keys
InitWire ==
    /\ items = {[id |-> 1, donor_id |-> "u1"]}
    /\ requests = {[id |-> 1, item_id |-> 1, receiver_id |-> "u2", status |-> "pending"]}
    /\ push_subscriptions =
          {[user_id |-> "u1", endpoint |-> "e1"], [user_id |-> "u2", endpoint |-> "e1"],
           [user_id |-> "u3", endpoint |-> "e2"]}
    /\ vapidConfigured \in BOOLEAN
    /\ exchange = Idle
    /\ InitChatEmpty
    /\ InitDialogClosed
    /\ InitLocationIdle
    /\ InitPresenceIdle

NextWire ==
    \/ /\ exchange = Idle
       /\ \E req \in WireRequests, answer \in [Endpoints -> Outcomes] : ServePush(req, answer)
    \/ Return

SpecWire == InitWire /\ [][NextWire]_vars

-----------------------------------------------------------------------------
(* The push gate over changing relationship data *)

\* every user has enabled notifications; u1 and u2 share a browser
InitGate ==
    /\ items = {}
    /\ requests = {}
    /\ push_subscriptions =
          {[user_id |-> "u1", endpoint |-> "e1"], [user_id |-> "u2", endpoint |-> "e1"],
           [user_id |-> "u3", endpoint |-> "e2"]}
    /\ vapidConfigured = TRUE
    /\ exchange = Idle
    /\ InitChatEmpty
    /\ InitDialogClosed
    /\ InitLocationIdle
    /\ InitPresenceIdle

NextGate ==
    \/ \E u \in Users : AddItem(u)
    \/ \E u \in Users, i \in ItemIds : handleRequest(u, i, GateRequestIds)
    \/ \E u \in Users, r \in RequestIds : handleAccept(u, r)
    \/ \E u \in Users, r \in RequestIds : handleDecline(u, r)
    \/ /\ exchange = Idle
       /\ \E req \in GateRequests, answer \in [Endpoints -> Outcomes] : ServePush(req, answer)
    \/ Return

SpecGate == InitGate /\ [][NextGate]_vars

-----------------------------------------------------------------------------
(* Push delivery over changing registrations *)

\* u1 has listed an item and u2 has asked for it; u3 is a stranger to both
InitDeliver ==
    /\ items = {[id |-> 1, donor_id |-> "u1"]}
    /\ requests = {[id |-> 1, item_id |-> 1, receiver_id |-> "u2", status |-> "pending"]}
    /\ push_subscriptions = {}
    /\ vapidConfigured = TRUE
    /\ exchange = Idle
    /\ InitChatEmpty
    /\ InitDialogClosed
    /\ InitLocationIdle
    /\ InitPresenceIdle

NextDeliver ==
    \/ \E u \in Users, e \in Endpoints : subscribe(u, e)
    \/ \E u \in Users, e \in Endpoints : unsubscribe(u, e)
    \/ /\ exchange = Idle
       /\ \E req \in GateRequests, answer \in [Endpoints -> Outcomes] : ServePush(req, answer)
    \/ Return

SpecDeliver == InitDeliver /\ [][NextDeliver]_vars

-----------------------------------------------------------------------------
(* The relationship rule, stated over the tables *)

\* a owns a listing b has requested, or b owns a listing a has requested, or a = b
Connected(a, b) ==
    \/ a = b
    \/ \E i \in items, r \in requests :
          /\ r.item_id = i.id
          /\ \/ i.donor_id = a /\ r.receiver_id = b
             \/ i.donor_id = b /\ r.receiver_id = a

\* the exchange at hand is a push call
Pushed == exchange.kind = "push"

\* the push call at hand got as far as the gate
Gated == Pushed /\ exchange.status \in {200, 403}

\* the ids asked for in the push call at hand
Asked == Range(Targets(exchange.req.payload))

\* the push call at hand left the store and the push service alone
NoDelivery ==
    /\ exchange.attempts = <<>>
    /\ push_subscriptions = exchange.before

-----------------------------------------------------------------------------
(* C1 - C3: the gate *)

\* C1: in a call that reaches the gate, a requested target is in the authorized
\* list exactly when it is the caller or is connected to the caller through a
\* request on an item of either of them, whatever the status of that request;
\* and for the list [caller] the authorized list is [caller].
C1_AuthorizedIffConnected ==
    Gated =>
        LET c == exchange.req.auth.token
        IN  /\ \A t \in Asked : (t \in Range(exchange.authorizedUserIds)) <=> Connected(c, t)
            /\ Range(exchange.authorizedUserIds) \subseteq Asked
            /\ Targets(exchange.req.payload) = <<c>> => exchange.authorizedUserIds = <<c>>

\* a caller was authorized for a target only through a declined request on the
\* target's item, next to a target that was refused
C1_Witness ==
    /\ Gated
    /\ \E t \in Range(exchange.authorizedUserIds), x \in Asked :
          /\ t # exchange.req.auth.token
          /\ x \notin Range(exchange.authorizedUserIds)
          /\ item_donor_id(1) = t
          /\ \A r \in requests : r.receiver_id = exchange.req.auth.token => r.status = "declined"

\* C2: an authenticated, well-formed call whose targets are all other users
\* with no connection to the caller answers 403 with success = false, has an
\* empty authorized list, attempts no delivery and deletes no registration.
C2_UnrelatedIsForbidden ==
    (/\ Pushed
     /\ exchange.parsed
     /\ exchange.req.payload.json = "object"
     /\ ValidationError(exchange.req.payload) = ""
     /\ \A t \in Asked : ~Connected(exchange.req.auth.token, t))
    => /\ exchange.status = 403
       /\ exchange.success = FALSE
       /\ exchange.authorizedUserIds = <<>>
       /\ NoDelivery

\* an unrelated caller was refused while the targets had registrations
C2_Witness ==
    /\ Pushed
    /\ exchange.status = 403
    /\ \E s \in push_subscriptions : s.user_id \in Asked
    /\ requests # {}

\* C3: every delivery attempt of a call goes to a registration of a user that
\* was requested and is in the authorized list (is connected to the caller).
C3_DeliveriesOnlyToAuthorized ==
    Pushed =>
        \A k \in 1..Len(exchange.attempts) :
            LET u == exchange.attempts[k].row.user_id
            IN  /\ u \in Range(exchange.authorizedUserIds)
                /\ u \in Asked
                /\ Connected(exchange.req.auth.token, u)

\* a mixed list: one target got a delivery, the other was refused although it
\* has a registration
C3_Witness ==
    /\ Pushed
    /\ Len(exchange.attempts) > 0
    /\ \E x \in Asked :
          /\ x \notin Range(exchange.authorizedUserIds)
          /\ \E s \in exchange.before : s.user_id = x

-----------------------------------------------------------------------------
(* C4 - C5: authentication and validation *)

\* C4: a call without an Authorization header, with one that is no bearer
\* header, or with a token that resolves to no user answers 401 before
\* req.json() is called, any table is read or any delivery attempted; in every
\* other call the caller id is the user the token resolves to, whatever the
\* body says, and the authorized list is made of users connected to that user.
C4_UnauthenticatedIsRejected ==
    Pushed =>
        LET h == exchange.req.auth
        IN  /\ (h.kind # "bearer" \/ h.token \notin Users) =>
                  /\ exchange.status = 401
                  /\ exchange.success = FALSE
                  /\ ~exchange.parsed
                  /\ exchange.reads = {}
                  /\ NoDelivery
            /\ exchange.status # 401 =>
                  /\ h.kind = "bearer"
                  /\ exchange.callerId = h.token
                  /\ \A t \in Range(exchange.authorizedUserIds) : Connected(h.token, t)

\* a call under an expired token was turned away although its payload was
\* well-formed and named, as caller, a user connected to the target
C4_Witness ==
    /\ Pushed
    /\ exchange.status = 401
    /\ exchange.req.auth.token = "expired"
    /\ vapidConfigured
    /\ exchange.req.payload.json = "object"
    /\ ValidationError(exchange.req.payload) = ""
    /\ \E t \in Asked : t # exchange.req.payload.caller_id
                        /\ Connected(exchange.req.payload.caller_id, t)

\* the payload of the call at hand breaks one of the stated input rules
C5_Invalid ==
    LET p == exchange.req.payload
    IN  \/ p.title.type = "undefined" \/ (p.title.type = "string" /\ p.title.length > 100)
        \/ p.body.type = "undefined" \/ (p.body.type = "string" /\ p.body.length > 500)
        \/ ~p.user_ids.isArray
        \/ Len(p.user_ids.list) = 0
        \/ Len(p.user_ids.list) > 50
        \/ \E k \in 1..Len(p.user_ids.list) : p.user_ids.list[k].shape # "uuid"

\* the payload of the call at hand sits exactly on the limits
C5_OnTheLimits ==
    LET p == exchange.req.payload
    IN  /\ p.title = TextVal("string", 100)
        /\ p.body = TextVal("string", 500)
        /\ p.user_ids.isArray
        /\ Len(p.user_ids.list) = 50
        /\ \A k \in 1..Len(p.user_ids.list) : p.user_ids.list[k].shape = "uuid"

\* C5: an authenticated call to the configured function whose JSON payload has
\* no title or one over 100 characters, no body or one over 500, a user_ids
\* that is no array, is empty, has more than 50 entries or has an entry that is
\* no well-formed UUID answers 400, and then no table is read, no delivery is
\* attempted and no registration is deleted; a title of 100, a body of 500 and
\* a list of 50 pass the validation.
C5_InvalidInputIsRejected ==
    (Pushed /\ exchange.parsed /\ exchange.req.payload.json = "object") =>
        /\ C5_Invalid =>
              /\ exchange.status = 400
              /\ exchange.success = FALSE
              /\ exchange.reads = {}
              /\ NoDelivery
        /\ C5_OnTheLimits => exchange.status \in {200, 403}

\* a call on the limits was delivered
C5_Witness ==
    /\ Pushed
    /\ C5_OnTheLimits
    /\ exchange.status = 200
    /\ Len(exchange.attempts) > 0

-----------------------------------------------------------------------------
(* The chat tables and their row-level policies *)

\* most rows of public.messages
MaxMessages == 2
\* the clock runs from 0 to MaxTime
MaxTime == 1

MessageIds == 1..MaxMessages

\* the row of public.requests with this id, as a set of none or one
RequestRow(rid) == {r \in requests : r.id = rid}

\* EXISTS (SELECT 1 FROM requests r WHERE r.id = request_id AND r.status = 'accepted'
\*         AND (r.receiver_id = auth.uid() OR item_donor_id(r.item_id) = auth.uid()))
ParticipantOfAccepted(uid, rid) ==
    \E r \in RequestRow(rid) :
        /\ r.status = "accepted"
        /\ r.receiver_id = uid \/ item_donor_id(r.item_id) = uid

\* an insert policy that lacks the auth.uid() = sender_id clause
SendPolicyAnySender(uid, row) == ParticipantOfAccepted(uid, row.request_id)

\* "Participants can send messages" WITH CHECK
SendPolicy(uid, row) ==
    /\ uid = row.sender_id
    /\ ParticipantOfAccepted(uid, row.request_id)

\* "Participants can view messages" USING
ViewMessagePolicy(uid, row) == ParticipantOfAccepted(uid, row.request_id)

\* a view policy that overlooks the status of the request
ViewPolicyAnyStatus(uid, row) ==
    \E r \in RequestRow(row.request_id) :
        r.receiver_id = uid \/ item_donor_id(r.item_id) = uid

\* "Users can view presence in their chats" USING
ViewPresencePolicy(uid, row) == ParticipantOfAccepted(uid, row.request_id)

\* "Users can view live locations in their chats" USING
ViewLocationPolicy(uid, row) == ParticipantOfAccepted(uid, row.request_id)

\* "Users can update read status" USING and WITH CHECK: the same participants clause
UpdateReadPolicy(uid, row) == ParticipantOfAccepted(uid, row.request_id)

\* a trigger that always addresses the receiver of the request
NotificationToReceiver(new) ==
    LET request_record == CHOOSE r \in requests : r.id = new.request_id
    IN  [id |-> new.id, user_id |-> request_record.receiver_id, type |-> "new_message",
         related_request_id |-> new.request_id, related_item_id |-> request_record.item_id]

\* notify_new_message(): the row the trigger adds for a new message
NotificationFor(new) ==
    LET request_record == CHOOSE r \in requests : r.id = new.request_id
        donor_id == item_donor_id(request_record.item_id)
        recipient_id == IF new.sender_id = request_record.receiver_id
                        THEN donor_id ELSE request_record.receiver_id
    IN  [id |-> new.id, user_id |-> recipient_id, type |-> "new_message",
         related_request_id |-> new.request_id, related_item_id |-> request_record.item_id]

\* the row an insert of (request_id, sender_id, content) stores: id, created_at
\* and is_read take their column defaults
NewMessage(rid, sender, content) ==
    [id |-> FreshId(MessageIds, messages), request_id |-> rid, sender_id |-> sender,
     content |-> content, message_type |-> "text", created_at |-> now, is_read |-> FALSE]

RECURSIVE OrderedDescending(_)
\* an order clause with ascending: false
OrderedDescending(rows) ==
    IF rows = {} THEN <<>>
    ELSE LET last == CHOOSE x \in rows : \A y \in rows :
                        \/ x.created_at > y.created_at
                        \/ x.created_at = y.created_at /\ x.id >= y.id
         IN  <<last>> \o OrderedDescending(rows \ {last})

RECURSIVE OrderedByCreatedAt(_)
\* .order("created_at", { ascending: true }); rows of equal created_at come in
\* the order they were stored
OrderedByCreatedAt(rows) ==
    IF rows = {} THEN <<>>
    ELSE LET first == CHOOSE x \in rows : \A y \in rows :
                         \/ x.created_at < y.created_at
                         \/ x.created_at = y.created_at /\ x.id <= y.id
         IN  <<first>> \o OrderedByCreatedAt(rows \ {first})

\* from("messages").select("*").eq("request_id", requestId).order("created_at"), as uid
SelectMessages(uid, rid) ==
    OrderedByCreatedAt({m \in messages : ViewMessagePolicy(uid, m) /\ m.request_id = rid})

\* an update that lacks the .neq("sender_id", ...) filter
MarkedReadOwnToo(uid, rid) ==
    {IF m.request_id = rid /\ UpdateReadPolicy(uid, m)
     THEN [m EXCEPT !.is_read = TRUE] ELSE m : m \in messages}

\* update({ is_read: true }).eq("request_id", requestId).neq("sender_id", uid), as uid
MarkedRead(uid, rid) ==
    {IF m.request_id = rid /\ m.sender_id # uid /\ UpdateReadPolicy(uid, m)
     THEN [m EXCEPT !.is_read = TRUE] ELSE m : m \in messages}

-----------------------------------------------------------------------------
(* The change feed of public.messages towards the dialog's channel *)

\* .on("postgres_changes", { event, table: "messages", filter: request_id=eq.requestId }):
\* the events the channel gets for rows written, in the order written; a row
\* the subscriber may not view is not sent
Published(event, rows) ==
    LET Mine(m) == /\ m.request_id = dialog.requestId
                   /\ ViewMessagePolicy(dialog.currentUserId, m)
    IN  IF subscribed
        THEN [k \in 1..Len(SelectSeq(rows, Mine)) |->
                 [event |-> event, new |-> SelectSeq(rows, Mine)[k]]]
        ELSE <<>>

-----------------------------------------------------------------------------
(* Message operations on the store *)

\* from("messages").insert({ request_id, sender_id, content }) under uid's token,
\* with the on_new_message_notify trigger
InsertMessage(uid, rid, sender, content) ==
    /\ HasFree(MessageIds, messages)
    /\ LET new == NewMessage(rid, sender, content)
           ok == SendPolicy(uid, new)
       IN  /\ messages' = IF ok THEN messages \cup {new} ELSE messages
           /\ notifications' = IF ok THEN notifications \cup {NotificationFor(new)}
                               ELSE notifications
           /\ channel' = IF ok THEN channel \o Published("INSERT", <<new>>) ELSE channel
           /\ exchange' = [kind |-> "insert", actor |-> uid, request_id |-> rid,
                           sender_id |-> sender, ok |-> ok, before |-> messages]
    /\ UNCHANGED <<items, requests, push_subscriptions, vapidConfigured,
                   chat_presence, live_locations, now,
                   dialog, dialogMessages, fetches, subscribed, locVars, presVars>>

\* what a user can type in the input
Typed == {"", " ", "hi"}

\* content.trim()
Trim(content) == IF content = " " THEN "" ELSE content

\* ChatDialog.handleSendMessage of a dialog opened by u on rid
handleSendMessage(u, rid, content) ==
    /\ Trim(content) # ""
    /\ InsertMessage(u, rid, u, Trim(content))

\* the list query of fetchMessages under uid's token; it is a repeat when the
\* operation before it was the same query
QueryMessages(uid, rid) ==
    /\ LET repeat == /\ exchange.kind = "list"
                     /\ exchange.actor = uid
                     /\ exchange.request_id = rid
       IN  exchange' = [kind |-> "list", actor |-> uid, request_id |-> rid,
                        rows |-> SelectMessages(uid, rid), repeat |-> repeat,
                        previous |-> IF repeat THEN exchange.rows ELSE <<>>,
                        before |-> messages]
    /\ UNCHANGED <<items, requests, push_subscriptions, vapidConfigured, chatVars, dialogVars, locVars, presVars>>

\* the UPDATE events of the update of markMessagesAsRead: one for every row
\* it matches, changed or not
ReadEvents(uid, rid) ==
    Published("UPDATE",
        OrderedByCreatedAt({m \in MarkedRead(uid, rid) :
            /\ m.request_id = rid /\ m.sender_id # uid
            /\ UpdateReadPolicy(uid, m)}))

\* ChatDialog.markMessagesAsRead under uid's token; it is a repeat when the
\* operation before it was the same call
markMessagesAsRead(uid, rid) ==
    /\ messages' = MarkedRead(uid, rid)
    /\ channel' = channel \o ReadEvents(uid, rid)
    /\ exchange' = [kind |-> "markRead", actor |-> uid, request_id |-> rid,
                    repeat |-> /\ exchange.kind = "markRead"
                               /\ exchange.actor = uid
                               /\ exchange.request_id = rid,
                    before |-> messages]
    /\ UNCHANGED <<items, requests, push_subscriptions, vapidConfigured,
                   notifications, chat_presence, live_locations, now,
                   dialog, dialogMessages, fetches, subscribed, locVars, presVars>>

\* time passes
Tick ==
    /\ now < MaxTime
    /\ now' = now + 1
    /\ UNCHANGED <<items, requests, push_subscriptions, vapidConfigured, exchange,
                   messages, notifications, chat_presence, live_locations, dialogVars, locVars, presVars>>

-----------------------------------------------------------------------------
(* The message store under every user's calls *)

\* u1 has listed an item
InitMsg ==
    /\ items = {[id |-> 1, donor_id |-> "u1"]}
    /\ requests = {}
    /\ push_subscriptions = {}
    /\ vapidConfigured = TRUE
    /\ exchange = Idle
    /\ InitChatEmpty
    /\ InitDialogClosed
    /\ InitLocationIdle
    /\ InitPresenceIdle

\* one call at a time: a call is made once the answer to the one before has
\* been taken; a list call may be repeated on the spot
NextMsg ==
    \/ \E u \in Users, i \in ItemIds : exchange = Idle /\ handleRequest(u, i, RequestIds)
    \/ \E u \in Users, r \in RequestIds : exchange = Idle /\ handleAccept(u, r)
    \/ \E u \in Users, r \in RequestIds : exchange = Idle /\ handleDecline(u, r)
    \/ \E u \in Users, r \in RequestIds, c \in Typed :
          exchange = Idle /\ handleSendMessage(u, r, c)
    \/ \E u \in Users, s \in Users, r \in RequestIds :
          exchange = Idle /\ u # s /\ InsertMessage(u, r, s, "hi")
    \/ exchange = Idle /\ Tick
    \/ \E u \in Users, r \in RequestIds :
          exchange.kind \in {"idle", "list"} /\ QueryMessages(u, r)
    \/ Return

SpecMsg == InitMsg /\ [][NextMsg]_vars

-----------------------------------------------------------------------------
(* The message store under sends and markRead calls *)

\* a markRead call may be repeated on the spot
NextMark ==
    \/ \E u \in Users, i \in ItemIds : exchange = Idle /\ handleRequest(u, i, RequestIds)
    \/ \E u \in Users, r \in RequestIds : exchange = Idle /\ handleAccept(u, r)
    \/ \E u \in Users, r \in RequestIds : exchange = Idle /\ handleDecline(u, r)
    \/ \E u \in Users, r \in RequestIds : exchange = Idle /\ handleSendMessage(u, r, "hi")
    \/ \E u \in Users, r \in RequestIds :
          exchange.kind \in {"idle", "markRead"} /\ markMessagesAsRead(u, r)
    \/ exchange = Idle /\ Tick
    \/ Return

SpecMark == InitMsg /\ [][NextMark]_vars

-----------------------------------------------------------------------------
(* Presence and live-location operations on the store *)

\* a write policy that lets any signed-in user through
AnyonePresencePolicy(uid, row) == TRUE

\* "Users can update their own presence" WITH CHECK, "Users can modify their
\* own presence" USING
OwnPresencePolicy(uid, row) == uid = row.user_id

\* "Users can share their own location" WITH CHECK, "Users can update their
\* own location" USING
OwnLocationPolicy(uid, row) == uid = row.user_id

\* the upsert replaces nothing
OthersAndOld(rows, row) == rows

\* the rows of a table other than the one an upsert on (user_id, request_id) replaces
Others(rows, row) ==
    {x \in rows : ~(x.user_id = row.user_id /\ x.request_id = row.request_id)}

\* .on("postgres_changes", { event: "*", table: "chat_presence",
\*                           filter: request_id=eq.requestId }):
\* the event the hook's channel gets for a row written; a row the subscriber
\* may not view is not sent
PresenceFeed(rows) ==
    LET sent == {q \in rows : /\ presenceSubscribed
                              /\ q.request_id = dialog.requestId
                              /\ ViewPresencePolicy(dialog.currentUserId, q)}
    IN  IF sent = {} THEN <<>> ELSE <<[new |-> sent]>>

\* useChatPresence.updatePresence of a dialog opened by u on rid: an upsert on
\* (user_id, request_id); the upsert reads its conflict columns, so the row
\* has to pass the view policy next to the write policies, else the error is logged
updatePresence(u, rid, isOnline) ==
    /\ LET row == [user_id |-> u, request_id |-> rid, is_online |-> isOnline,
                   last_seen |-> now]
           ok == OwnPresencePolicy(u, row) /\ ViewPresencePolicy(u, row)
       IN  /\ chat_presence' = IF ok THEN Others(chat_presence, row) \cup {row}
                                ELSE chat_presence
           /\ presenceChannel' = presenceChannel \o PresenceFeed(IF ok THEN {row} ELSE {})
    /\ exchange' = Idle
    /\ UNCHANGED <<items, requests, push_subscriptions, vapidConfigured,
                   messages, notifications, live_locations, now, dialogVars, locVars,
                   otherUserPresence, presenceSubscribed, presenceWrites, hidden>>

\* startSharing(60): the session lasts one step of the clock
SharingDuration == 1

\* what a position fix can report (latitude and longitude taken together)
Positions == {"here", "there"}

\* the row is written without the duration added
SessionRowExpiringNow(uid, rid, pos) ==
    [user_id |-> uid, request_id |-> rid, position |-> pos, is_sharing |-> TRUE,
     expires_at |-> now]

\* the row startSharing upserts for a fix taken now
SessionRow(uid, rid, pos) ==
    [user_id |-> uid, request_id |-> rid, position |-> pos, is_sharing |-> TRUE,
     expires_at |-> now + SharingDuration]

\* an upsert on (user_id, request_id) reads its conflict columns, so the row has
\* to pass the view policy next to the write policies
CanUpsert(uid, row) == OwnLocationPolicy(uid, row) /\ ViewLocationPolicy(uid, row)

\* live_locations after upsert(row, { onConflict: "user_id,request_id" }) under uid's token
Upserted(uid, row) ==
    IF CanUpsert(uid, row) THEN Others(live_locations, row) \cup {row} ELSE live_locations

\* the rows an update(...).eq("user_id", uid).eq("request_id", rid) under uid's
\* token reaches
Matching(uid, rid) ==
    {l \in live_locations : /\ l.user_id = uid /\ l.request_id = rid
                            /\ OwnLocationPolicy(uid, l) /\ ViewLocationPolicy(uid, l)}

\* the update flips is_sharing instead of clearing it
StoppedByToggle(uid, rid) ==
    {IF l \in Matching(uid, rid) THEN [l EXCEPT !.is_sharing = ~l.is_sharing] ELSE l :
        l \in live_locations}

\* live_locations after update({ is_sharing: false }) on the rows reached
Stopped(uid, rid) ==
    {IF l \in Matching(uid, rid) THEN [l EXCEPT !.is_sharing = FALSE] ELSE l :
        l \in live_locations}

\* the watch also renews the session with every fix
MovedAndRenewed(uid, rid, pos) ==
    {IF l \in Matching(uid, rid)
     THEN [l EXCEPT !.position = pos, !.is_sharing = TRUE,
                    !.expires_at = now + SharingDuration]
     ELSE l : l \in live_locations}

\* live_locations after update({ latitude, longitude }) on the rows reached
Moved(uid, rid, pos) ==
    {IF l \in Matching(uid, rid) THEN [l EXCEPT !.position = pos] ELSE l :
        l \in live_locations}

\* .on("postgres_changes", { event: "*", table: "live_locations",
\*                           filter: request_id=eq.requestId }):
\* the events the hook's channel gets for the rows written; a written row the
\* subscriber may not view is not sent. owner is whose row was written: the
\* store knows it, the handler reads new and old only
LocationFeed(event, rows, old) ==
    LET sent == {l \in rows : /\ locSubscribed
                              /\ l.request_id = dialog.requestId
                              /\ \/ event = "DELETE"
                                 \/ ViewLocationPolicy(dialog.currentUserId, l)}
    IN  IF sent = {} THEN <<>>
        ELSE <<[event |-> event,
                new |-> IF event = "DELETE" THEN {} ELSE sent,
                old |-> old,
                owner |-> (CHOOSE l \in sent : TRUE).user_id]>>

\* the upsert of useLiveLocation.startSharing under uid's token
UpsertLiveLocation(uid, rid, pos) ==
    /\ LET row == SessionRow(uid, rid, pos)
       IN  /\ live_locations' = Upserted(uid, row)
           /\ locChannel' = locChannel \o
                 LocationFeed(IF Matching(uid, rid) = {} THEN "INSERT" ELSE "UPDATE",
                              IF CanUpsert(uid, row) THEN {row} ELSE {}, {})
    /\ exchange' = Idle
    /\ UNCHANGED <<items, requests, push_subscriptions, vapidConfigured,
                   messages, notifications, chat_presence, now, dialogVars,
                   mounted, isSharing, otherUserLocation, currentLocation, watchIdRef,
                   watches, fixes, locSubscribed, presVars>>

\* the update of useLiveLocation.stopSharing under uid's token:
\* update({ is_sharing: false }).eq("user_id", uid).eq("request_id", rid)
StopLiveLocation(uid, rid) ==
    /\ live_locations' = Stopped(uid, rid)
    /\ locChannel' = locChannel \o
          LocationFeed("UPDATE", Stopped(uid, rid) \ (live_locations \ Matching(uid, rid)), {})
    /\ exchange' = Idle
    /\ UNCHANGED <<items, requests, push_subscriptions, vapidConfigured,
                   messages, notifications, chat_presence, now, dialogVars,
                   mounted, isSharing, otherUserLocation, currentLocation, watchIdRef,
                   watches, fixes, locSubscribed, presVars>>

\* the update of the watchPosition callback under uid's token:
\* update({ latitude, longitude }).eq("user_id", uid).eq("request_id", rid)
UpdatePosition(uid, rid, pos) ==
    /\ live_locations' = Moved(uid, rid, pos)
    /\ locChannel' = locChannel \o
          LocationFeed("UPDATE", Moved(uid, rid, pos) \ (live_locations \ Matching(uid, rid)),
                       {})
    /\ exchange' = Idle
    /\ UNCHANGED <<items, requests, push_subscriptions, vapidConfigured,
                   messages, notifications, chat_presence, now, dialogVars,
                   mounted, isSharing, otherUserLocation, currentLocation, watchIdRef,
                   watches, fixes, locSubscribed, presVars>>

\* from("live_locations").delete().eq("user_id", uid).eq("request_id", rid) under
\* uid's token ("Users can stop sharing their location"). The table keeps the
\* default replica identity, so the event's old record carries the primary key
\* only; with the identity set to full outside the migrations it carries the
\* row (full)
DeleteLiveLocation(uid, rid, full) ==
    /\ Matching(uid, rid) # {}
    /\ live_locations' = live_locations \ Matching(uid, rid)
    /\ locChannel' = locChannel \o
          LocationFeed("DELETE", Matching(uid, rid), IF full THEN {uid} ELSE {})
    /\ exchange' = Idle
    /\ UNCHANGED <<items, requests, push_subscriptions, vapidConfigured,
                   messages, notifications, chat_presence, now, dialogVars,
                   mounted, isSharing, otherUserLocation, currentLocation, watchIdRef,
                   watches, fixes, locSubscribed, presVars>>

\* .single(): the row when there is exactly one
Single(rows) == IF Cardinality(rows) = 1 THEN rows ELSE {}

\* the query of useChatPresence.fetchPresence under uid's token
QueryPresence(uid, rid) ==
    /\ exchange' =
          [kind |-> "presence", actor |-> uid, request_id |-> rid,
           rows |-> Single({p \in chat_presence :
                               /\ ViewPresencePolicy(uid, p)
                               /\ p.request_id = rid
                               /\ p.user_id # uid})]
    /\ UNCHANGED <<items, requests, push_subscriptions, vapidConfigured, chatVars, dialogVars, locVars, presVars>>

\* the query of useLiveLocation.fetchLiveLocations under uid's token
QueryLiveLocations(uid, rid) ==
    /\ exchange' =
          [kind |-> "locations", actor |-> uid, request_id |-> rid,
           rows |-> {l \in live_locations :
                        /\ ViewLocationPolicy(uid, l)
                        /\ l.request_id = rid
                        /\ l.is_sharing
                        /\ l.expires_at >= now}]
    /\ UNCHANGED <<items, requests, push_subscriptions, vapidConfigured, chatVars, dialogVars, locVars, presVars>>

-----------------------------------------------------------------------------
(* One conversation read by every user while its request changes state *)

\* most messages written while the reads are followed
MaxReadMessages == 1

\* u1 has listed an item and u2 has asked for it
InitRead ==
    /\ items = {[id |-> 1, donor_id |-> "u1"]}
    /\ requests = {[id |-> 1, item_id |-> 1, receiver_id |-> "u2", status |-> "pending"]}
    /\ push_subscriptions = {}
    /\ vapidConfigured = TRUE
    /\ exchange = Idle
    /\ InitChatEmpty
    /\ InitDialogClosed
    /\ InitLocationIdle
    /\ InitPresenceIdle

NextRead ==
    \/ \E u \in Users, r \in GateRequestIds : exchange = Idle /\ handleAccept(u, r)
    \/ \E u \in Users, r \in GateRequestIds : exchange = Idle /\ handleDecline(u, r)
    \/ \E u \in Users, r \in GateRequestIds :
          /\ exchange = Idle
          /\ Cardinality(messages) < MaxReadMessages
          /\ handleSendMessage(u, r, "hi")
    \/ \E u \in Users, r \in GateRequestIds, b \in BOOLEAN :
          exchange = Idle /\ updatePresence(u, r, b)
    \/ \E u \in Users, r \in GateRequestIds : exchange = Idle /\ UpsertLiveLocation(u, r, "here")
    \/ \E u \in Users, r \in GateRequestIds : exchange = Idle /\ StopLiveLocation(u, r)
    \/ \E u \in Users, r \in GateRequestIds : exchange = Idle /\ QueryMessages(u, r)
    \/ \E u \in Users, r \in GateRequestIds : exchange = Idle /\ QueryPresence(u, r)
    \/ \E u \in Users, r \in GateRequestIds : exchange = Idle /\ QueryLiveLocations(u, r)
    \/ exchange = Idle /\ Tick
    \/ Return

SpecRead == InitRead /\ [][NextRead]_vars

-----------------------------------------------------------------------------
(* The presence and session rows of one conversation under every user's writes *)

NextPairs ==
    \/ \E u \in Users, r \in GateRequestIds : handleAccept(u, r)
    \/ \E u \in Users, r \in GateRequestIds : handleDecline(u, r)
    \/ \E u \in Users, r \in GateRequestIds, b \in BOOLEAN : updatePresence(u, r, b)
    \/ \E u \in Users, r \in GateRequestIds, pos \in Positions : UpsertLiveLocation(u, r, pos)
    \/ \E u \in Users, r \in GateRequestIds, pos \in Positions : UpdatePosition(u, r, pos)
    \/ \E u \in Users, r \in GateRequestIds : StopLiveLocation(u, r)
    \/ Tick

SpecPairs == InitRead /\ [][NextPairs]_vars

-----------------------------------------------------------------------------
(* ChatDialog: the effect on [open, requestId, currentUserId] and its handlers *)

\* most list calls of the dialog on their way at a time
MaxFetches == 1

\* the effect runs for open = true: fetchMessages() is called, markMessagesAsRead()
\* is called, the channel is built and asked to subscribe
OpenDialog(u, rid) ==
    /\ ~dialog.open
    /\ Len(fetches) < MaxFetches
    /\ dialog' = [open |-> TRUE, requestId |-> rid, currentUserId |-> u]
    /\ fetches' = Append(fetches, [state |-> "sent", actor |-> u, request_id |-> rid,
                                   rows |-> <<>>])
    /\ messages' = MarkedRead(u, rid)
    /\ exchange' = Idle
    /\ UNCHANGED <<items, requests, push_subscriptions, vapidConfigured,
                   notifications, chat_presence, live_locations, now,
                   dialogMessages, subscribed, channel, locVars, presVars>>

\* .subscribe() has joined: changes from here on are sent to the channel
Joined ==
    /\ dialog.open
    /\ ~subscribed
    /\ subscribed' = TRUE
    /\ UNCHANGED <<items, requests, push_subscriptions, vapidConfigured, exchange,
                   chatVars, dialog, dialogMessages, fetches, channel, locVars, presVars>>

\* the store runs the query of a fetchMessages call
AnswerList(k) ==
    /\ fetches[k].state = "sent"
    /\ fetches' = [fetches EXCEPT ![k] =
                      [state |-> "answered", actor |-> fetches[k].actor,
                       request_id |-> fetches[k].request_id,
                       rows |-> SelectMessages(fetches[k].actor, fetches[k].request_id)]]
    /\ UNCHANGED <<items, requests, push_subscriptions, vapidConfigured, exchange,
                   chatVars, dialog, dialogMessages, subscribed, channel, locVars, presVars>>

\* s without its k-th entry
Without(s, k) == SubSeq(s, 1, k - 1) \o SubSeq(s, k + 1, Len(s))

\* fetchMessages after the await: setMessages(data)
ApplyList(k) ==
    /\ fetches[k].state = "answered"
    /\ dialogMessages' = fetches[k].rows
    /\ fetches' = Without(fetches, k)
    /\ UNCHANGED <<items, requests, push_subscriptions, vapidConfigured, exchange,
                   chatVars, dialog, subscribed, channel, locVars, presVars>>

\* prev.map((m) => (m.id === updatedMsg.id ? updatedMsg : m))
Replaced(prev, updatedMsg) ==
    [k \in 1..Len(prev) |-> IF prev[k].id = updatedMsg.id THEN updatedMsg ELSE prev[k]]

\* the channel hands its next event to the handler registered for it
DeliverEvent ==
    /\ channel # <<>>
    /\ LET payload == Head(channel)
           foreign == /\ payload.event = "INSERT"
                      /\ payload.new.sender_id # dialog.currentUserId
       IN  /\ dialogMessages' = IF payload.event = "INSERT"
                                THEN Append(dialogMessages, payload.new)
                                ELSE Replaced(dialogMessages, payload.new)
           /\ messages' = IF foreign
                          THEN MarkedRead(dialog.currentUserId, dialog.requestId)
                          ELSE messages
           /\ channel' = IF foreign
                         THEN Tail(channel) \o ReadEvents(dialog.currentUserId, dialog.requestId)
                         ELSE Tail(channel)
    /\ exchange' = Idle
    /\ UNCHANGED <<items, requests, push_subscriptions, vapidConfigured,
                   notifications, chat_presence, live_locations, now,
                   dialog, fetches, subscribed, locVars, presVars>>

\* the effect's cleanup for open = false: supabase.removeChannel(channel)
CloseDialog ==
    /\ dialog.open
    /\ dialog' = [dialog EXCEPT !.open = FALSE]
    /\ subscribed' = FALSE
    /\ channel' = <<>>
    /\ exchange' = Idle
    /\ UNCHANGED <<items, requests, push_subscriptions, vapidConfigured,
                   chatVars, dialogMessages, fetches, locVars, presVars>>

-----------------------------------------------------------------------------
(* An accepted conversation with the receiver's dialog on it *)

\* the user whose dialog is followed, and the two who write
DialogUsers == {"u2"}
Writers == {"u1", "u2"}

\* u1 has listed an item, u2 has asked for it and u1 has accepted
InitDialog ==
    /\ items = {[id |-> 1, donor_id |-> "u1"]}
    /\ requests = {[id |-> 1, item_id |-> 1, receiver_id |-> "u2", status |-> "accepted"]}
    /\ push_subscriptions = {}
    /\ vapidConfigured = TRUE
    /\ exchange = Idle
    /\ InitChatEmpty
    /\ InitDialogClosed
    /\ InitLocationIdle
    /\ InitPresenceIdle

\* the peer's dialog marks as read when there is something unread
NextDialog ==
    \/ \E u \in DialogUsers, r \in GateRequestIds : OpenDialog(u, r)
    \/ Joined
    \/ \E k \in 1..Len(fetches) : AnswerList(k)
    \/ \E k \in 1..Len(fetches) : ApplyList(k)
    \/ DeliverEvent
    \/ CloseDialog
    \/ \E u \in Writers, r \in GateRequestIds : handleSendMessage(u, r, "hi")
    \/ \E u \in Writers \ DialogUsers, r \in GateRequestIds :
          /\ MarkedRead(u, r) # messages
          /\ markMessagesAsRead(u, r)
    \/ Tick

SpecDialog == InitDialog /\ [][NextDialog]_vars

-----------------------------------------------------------------------------
(* useLiveLocation: the hook of the dialog, useLiveLocation(open ? requestId : "", currentUserId) *)

\* most getCurrentPosition calls and watches of the client there are ids for
MaxWatches == 2
WatchIds == 1..MaxWatches

\* most change events queued for the hook's channel
MaxLocEvents == 1

\* setOtherUserLocation({ userId, latitude, longitude, isSharing, expiresAt })
PeerView(loc) ==
    [userId |-> loc.user_id, position |-> loc.position, isSharing |-> loc.is_sharing,
     expiresAt |-> loc.expires_at]

\* the rows fetchLiveLocations gets under uid's token
SelectLiveLocations(uid, rid) ==
    {l \in live_locations : /\ ViewLocationPolicy(uid, l)
                            /\ l.request_id = rid
                            /\ l.is_sharing
                            /\ l.expires_at >= now}

\* the hook's effect for a conversation that has been opened: fetchLiveLocations()
\* is called and its rows applied (own row: setIsSharing(true); another row:
\* setOtherUserLocation), the channel is built and subscribed
LocationEffect ==
    /\ mounted
    /\ dialog.open
    /\ ~locSubscribed
    /\ LET data == SelectLiveLocations(dialog.currentUserId, dialog.requestId)
           own == {l \in data : l.user_id = dialog.currentUserId}
       IN  /\ isSharing' = IF own # {} THEN TRUE ELSE isSharing
           /\ \/ /\ data \ own = {}
                 /\ otherUserLocation' = otherUserLocation
              \/ \E loc \in data \ own : otherUserLocation' = {PeerView(loc)}
    /\ locSubscribed' = TRUE
    /\ exchange' = Idle
    /\ UNCHANGED <<items, requests, push_subscriptions, vapidConfigured, chatVars, dialogVars,
                   mounted, currentLocation, watchIdRef, watches, fixes, locChannel, presVars>>

\* the effect's cleanup once requestId is "" again: supabase.removeChannel(channel)
LocationCleanup ==
    /\ ~dialog.open
    /\ locSubscribed
    /\ locSubscribed' = FALSE
    /\ locChannel' = <<>>
    /\ exchange' = Idle
    /\ UNCHANGED <<items, requests, push_subscriptions, vapidConfigured, chatVars, dialogVars,
                   mounted, isSharing, otherUserLocation, currentLocation, watchIdRef,
                   watches, fixes, presVars>>

\* the hook's channel hands its next event to the handler registered for it
DeliverLocationEvent ==
    /\ locSubscribed
    /\ locChannel # <<>>
    /\ LET payload == Head(locChannel)
       IN  /\ otherUserLocation' =
                 IF payload.event = "DELETE"
                 THEN IF payload.old # {dialog.currentUserId} THEN {} ELSE otherUserLocation
                 ELSE LET data == CHOOSE l \in payload.new : TRUE
                      IN  IF data.user_id # dialog.currentUserId
                          THEN IF ~data.is_sharing \/ data.expires_at < now
                               THEN {}
                               ELSE {PeerView(data)}
                          ELSE otherUserLocation
           /\ exchange' = [kind |-> "event", at |-> now, payload |-> payload,
                           before |-> otherUserLocation]
    /\ locChannel' = Tail(locChannel)
    /\ UNCHANGED <<items, requests, push_subscriptions, vapidConfigured, chatVars, dialogVars,
                   mounted, isSharing, currentLocation, watchIdRef, watches, fixes,
                   locSubscribed, presVars>>

\* startSharing(60) up to navigator.geolocation.getCurrentPosition(...): without
\* geolocation (supported = FALSE) it resolves false at once
startSharing(supported) ==
    /\ mounted
    /\ dialog.open
    /\ Len(fixes) + Cardinality(watches) < MaxWatches
    /\ fixes' = IF supported
                THEN Append(fixes, [user_id |-> dialog.currentUserId,
                                    request_id |-> dialog.requestId])
                ELSE fixes
    /\ exchange' = IF supported THEN Idle
                   ELSE [kind |-> "start", at |-> now, ok |-> FALSE, cause |-> "unsupported",
                         row |-> {},
                         before |-> [rows |-> live_locations, isSharing |-> isSharing,
                                     watches |-> watches, fixes |-> fixes]]
    /\ UNCHANGED <<items, requests, push_subscriptions, vapidConfigured, chatVars, dialogVars,
                   mounted, isSharing, otherUserLocation, currentLocation, watchIdRef,
                   watches, locSubscribed, locChannel, presVars>>

\* the success callback of getCurrentPosition for the k-th call waiting: the
\* upsert, and when it went through (the request may also fail on its way:
\* fails) setIsSharing(true), setCurrentLocation, watchPosition, resolve(true);
\* else resolve(false). State setters of an unmounted component do nothing
PositionFix(k, pos, fails) ==
    /\ LET c == fixes[k]
           row == SessionRow(c.user_id, c.request_id, pos)
           ok == ~fails /\ CanUpsert(c.user_id, row)
           id == CHOOSE w \in WatchIds : \A x \in watches : x.id # w
       IN  /\ live_locations' = IF ok THEN Upserted(c.user_id, row) ELSE live_locations
           /\ locChannel' = IF ok
                            THEN locChannel \o
                                 LocationFeed(IF Matching(c.user_id, c.request_id) = {}
                                              THEN "INSERT" ELSE "UPDATE", {row}, {})
                            ELSE locChannel
           /\ isSharing' = IF ok /\ mounted THEN TRUE ELSE isSharing
           /\ currentLocation' = IF ok /\ mounted THEN {pos} ELSE currentLocation
           /\ watchIdRef' = IF ok THEN id ELSE watchIdRef
           /\ watches' = IF ok
                         THEN watches \cup {[id |-> id, user_id |-> c.user_id,
                                             request_id |-> c.request_id]}
                         ELSE watches
           /\ exchange' = [kind |-> "start", at |-> now, ok |-> ok,
                           cause |-> IF ok THEN "none" ELSE "upsert",
                           row |-> IF ok THEN {row} ELSE {},
                           before |-> [rows |-> live_locations, isSharing |-> isSharing,
                                       watches |-> watches, fixes |-> Without(fixes, k)]]
    /\ fixes' = Without(fixes, k)
    /\ UNCHANGED <<items, requests, push_subscriptions, vapidConfigured,
                   messages, notifications, chat_presence, now, dialogVars,
                   mounted, otherUserLocation, locSubscribed, presVars>>

\* the error callback of getCurrentPosition for the k-th call waiting
\* (permission denied, position unavailable, timeout): resolve(false)
PositionError(k) ==
    /\ fixes' = Without(fixes, k)
    /\ exchange' = [kind |-> "start", at |-> now, ok |-> FALSE, cause |-> "fix", row |-> {},
                    before |-> [rows |-> live_locations, isSharing |-> isSharing,
                                watches |-> watches, fixes |-> Without(fixes, k)]]
    /\ UNCHANGED <<items, requests, push_subscriptions, vapidConfigured, chatVars, dialogVars,
                   mounted, isSharing, otherUserLocation, currentLocation, watchIdRef,
                   watches, locSubscribed, locChannel, presVars>>

\* the callback of watchPosition for the watch w: setCurrentLocation and the
\* update of latitude and longitude (the request may fail on its way: fails)
WatchFix(w, pos, fails) ==
    /\ live_locations' = IF fails THEN live_locations
                         ELSE Moved(w.user_id, w.request_id, pos)
    /\ locChannel' = IF fails THEN locChannel
                     ELSE locChannel \o
                          LocationFeed("UPDATE",
                                       Moved(w.user_id, w.request_id, pos)
                                          \ (live_locations \ Matching(w.user_id, w.request_id)),
                                       {})
    /\ currentLocation' = IF mounted THEN {pos} ELSE currentLocation
    /\ exchange' = [kind |-> "move", at |-> now, watch |-> w, sent |-> ~fails, before |-> live_locations]
    /\ UNCHANGED <<items, requests, push_subscriptions, vapidConfigured,
                   messages, notifications, chat_presence, now, dialogVars,
                   mounted, isSharing, otherUserLocation, watchIdRef, watches, fixes,
                   locSubscribed, presVars>>

\* stopSharing: clearWatch(watchIdRef.current), then the update of is_sharing
\* (the request may fail on its way: fails, then the toast and return), then
\* setIsSharing(false), setCurrentLocation(null)
stopSharing(fails) ==
    /\ mounted
    /\ dialog.open
    /\ watches' = {w \in watches : w.id # watchIdRef}
    /\ watchIdRef' = NoWatch
    /\ live_locations' = IF fails THEN live_locations
                         ELSE Stopped(dialog.currentUserId, dialog.requestId)
    /\ locChannel' = IF fails THEN locChannel
                     ELSE locChannel \o
                          LocationFeed("UPDATE",
                                       Stopped(dialog.currentUserId, dialog.requestId)
                                          \ (live_locations
                                               \ Matching(dialog.currentUserId, dialog.requestId)),
                                       {})
    /\ isSharing' = IF fails THEN isSharing ELSE FALSE
    /\ currentLocation' = IF fails THEN currentLocation ELSE {}
    /\ exchange' = [kind |-> "stop", error |-> fails,
                    repeat |-> exchange.kind = "stop" /\ ~exchange.error,
                    before |-> [rows |-> live_locations, isSharing |-> isSharing,
                                watchIdRef |-> watchIdRef, watches |-> watches]]
    /\ UNCHANGED <<items, requests, push_subscriptions, vapidConfigured,
                   messages, notifications, chat_presence, now, dialogVars,
                   mounted, otherUserLocation, fixes, locSubscribed, presVars>>

\* the component is unmounted: the cleanup of every effect runs; the location
\* hook's last effect clears the watch watchIdRef.current names, the presence
\* hook's cleanup sends updatePresence(false)
Unmount ==
    /\ mounted
    /\ mounted' = FALSE
    /\ watches' = {w \in watches : w.id # watchIdRef}
    /\ dialog' = [dialog EXCEPT !.open = FALSE]
    /\ subscribed' = FALSE
    /\ channel' = <<>>
    /\ locSubscribed' = FALSE
    /\ locChannel' = <<>>
    /\ presenceSubscribed' = FALSE
    /\ presenceChannel' = <<>>
    /\ presenceWrites' = IF presenceSubscribed
                         THEN Append(presenceWrites,
                                     [user_id |-> dialog.currentUserId,
                                      request_id |-> dialog.requestId,
                                      is_online |-> FALSE, last_seen |-> now])
                         ELSE presenceWrites
    /\ exchange' = Idle
    /\ UNCHANGED <<items, requests, push_subscriptions, vapidConfigured, chatVars,
                   dialogMessages, fetches,
                   isSharing, otherUserLocation, currentLocation, watchIdRef, fixes,
                   otherUserPresence, hidden>>

\* handleLocationClick: the live marker of the peer on the map it opens
PeerMarker ==
    {[position |-> v.position, isLive |-> TRUE] : v \in {x \in otherUserLocation : x.isSharing}}

\* time passes, as far as the end of a session started by MaxTime
Wait ==
    /\ now < MaxTime + SharingDuration
    /\ now' = now + 1
    /\ UNCHANGED <<items, requests, push_subscriptions, vapidConfigured, exchange,
                   messages, notifications, chat_presence, live_locations, dialogVars, locVars, presVars>>

-----------------------------------------------------------------------------
(* useChatPresence: the hook of the dialog, useChatPresence(open ? requestId : "", currentUserId) *)

\* most presence upserts of the client on their way at a time
MaxPresenceWrites == 2

\* the row updatePresence(isOnline) sends for the dialog's user: last_seen is
\* read from the client's clock when the call is made
PresenceRow(isOnline) ==
    [user_id |-> dialog.currentUserId, request_id |-> dialog.requestId,
     is_online |-> isOnline, last_seen |-> now]

\* the hook's effect for a conversation that has been opened: fetchPresence()
\* is called and its row applied, the channel is built and subscribed,
\* updatePresence(true) is sent, visibilitychange is listened to
PresenceEffect ==
    /\ mounted
    /\ dialog.open
    /\ ~presenceSubscribed
    /\ Len(presenceWrites) < MaxPresenceWrites
    /\ LET data == Single({q \in chat_presence :
                              /\ ViewPresencePolicy(dialog.currentUserId, q)
                              /\ q.request_id = dialog.requestId
                              /\ q.user_id # dialog.currentUserId})
       IN  otherUserPresence' =
              IF data = {} THEN otherUserPresence
              ELSE LET q == CHOOSE x \in data : TRUE
                   IN  [isOnline |-> q.is_online, lastSeen |-> {q.last_seen}]
    /\ presenceSubscribed' = TRUE
    /\ presenceWrites' = Append(presenceWrites, PresenceRow(TRUE))
    /\ exchange' = Idle
    /\ UNCHANGED <<items, requests, push_subscriptions, vapidConfigured, chatVars, dialogVars,
                   locVars, presenceChannel, hidden>>

\* the effect's cleanup once requestId is "" again: updatePresence(false) of the
\* render that had the conversation, removeChannel, removeEventListener
PresenceCleanup ==
    /\ ~dialog.open
    /\ presenceSubscribed
    /\ Len(presenceWrites) < MaxPresenceWrites
    /\ presenceWrites' = Append(presenceWrites, PresenceRow(FALSE))
    /\ presenceSubscribed' = FALSE
    /\ presenceChannel' = <<>>
    /\ exchange' = Idle
    /\ UNCHANGED <<items, requests, push_subscriptions, vapidConfigured, chatVars, dialogVars,
                   locVars, otherUserPresence, hidden>>

\* the page is hidden or shown again: handleVisibilityChange, while it is
\* registered, sends updatePresence(!document.hidden)
VisibilityChange ==
    /\ mounted
    /\ presenceSubscribed => Len(presenceWrites) < MaxPresenceWrites
    /\ hidden' = ~hidden
    /\ presenceWrites' = IF presenceSubscribed
                         THEN Append(presenceWrites, PresenceRow(hidden))
                         ELSE presenceWrites
    /\ exchange' = Idle
    /\ UNCHANGED <<items, requests, push_subscriptions, vapidConfigured, chatVars, dialogVars,
                   locVars, otherUserPresence, presenceSubscribed, presenceChannel>>

\* the store runs the k-th upsert on its way (the calls are not awaited, so the
\* requests are in flight together and arrive in any order); an error is logged
RunPresenceWrite(k) ==
    /\ LET row == presenceWrites[k]
           ok == OwnPresencePolicy(row.user_id, row) /\ ViewPresencePolicy(row.user_id, row)
       IN  /\ chat_presence' = IF ok THEN Others(chat_presence, row) \cup {row}
                                ELSE chat_presence
           /\ presenceChannel' = presenceChannel \o PresenceFeed(IF ok THEN {row} ELSE {})
    /\ presenceWrites' = Without(presenceWrites, k)
    /\ exchange' = Idle
    /\ UNCHANGED <<items, requests, push_subscriptions, vapidConfigured,
                   messages, notifications, live_locations, now, dialogVars, locVars,
                   otherUserPresence, presenceSubscribed, hidden>>

\* the hook's channel hands its next event to the handler registered for it
DeliverPresenceEvent ==
    /\ presenceSubscribed
    /\ presenceChannel # <<>>
    /\ LET data == CHOOSE q \in Head(presenceChannel).new : TRUE
       IN  otherUserPresence' =
              IF data.user_id # dialog.currentUserId
              THEN [isOnline |-> data.is_online, lastSeen |-> {data.last_seen}]
              ELSE otherUserPresence
    /\ presenceChannel' = Tail(presenceChannel)
    /\ exchange' = Idle
    /\ UNCHANGED <<items, requests, push_subscriptions, vapidConfigured, chatVars, dialogVars,
                   locVars, presenceSubscribed, presenceWrites, hidden>>

-----------------------------------------------------------------------------
(* An accepted conversation with the donor's dialog on it and the receiver as peer *)

LocUsers == {"u1"}
Peers == {"u2"}

InitLoc ==
    /\ items = {[id |-> 1, donor_id |-> "u1"]}
    /\ requests = {[id |-> 1, item_id |-> 1, receiver_id |-> "u2", status |-> "accepted"]}
    /\ push_subscriptions = {}
    /\ vapidConfigured = TRUE
    /\ exchange = Idle
    /\ InitChatEmpty
    /\ InitDialogClosed
    /\ InitLocationIdle
    /\ InitPresenceIdle

\* there is room on the hook's channel for what a write publishes
Room == Len(locChannel) < MaxLocEvents

\* the dialog's user shares and stops
NextShare ==
    \/ \E u \in LocUsers, r \in GateRequestIds : mounted /\ OpenDialog(u, r)
    \/ mounted /\ CloseDialog
    \/ LocationEffect
    \/ LocationCleanup
    \/ DeliverLocationEvent
    \/ \E supported \in BOOLEAN : startSharing(supported)
    \/ \E k \in 1..Len(fixes), fails \in BOOLEAN : Room /\ PositionFix(k, "here", fails)
    \/ \E k \in 1..Len(fixes) : PositionError(k)
    \/ \E w \in watches, pos \in Positions, fails \in BOOLEAN : Room /\ WatchFix(w, pos, fails)
    \/ \E fails \in BOOLEAN : Room /\ stopSharing(fails)
    \/ Unmount
    \/ Wait

SpecShare == InitLoc /\ [][NextShare]_vars

\* what happens without the user: the clock, the effects React runs after a
\* render, the callbacks of the channel and of geolocation; opening, closing,
\* the toggle and leaving the page are the user's
Unprompted ==
    \/ Wait
    \/ LocationEffect
    \/ LocationCleanup
    \/ DeliverLocationEvent
    \/ \E k \in 1..Len(fixes), fails \in BOOLEAN : Room /\ PositionFix(k, "here", fails)
    \/ \E w \in watches, pos \in Positions, fails \in BOOLEAN : Room /\ WatchFix(w, pos, fails)

SpecShareLive == SpecShare /\ WF_vars(Unprompted)

\* the dialog's user looks on while the peer shares, moves, stops and deletes;
\* the user's own row is written and deleted from another device
NextObserve ==
    \/ \E u \in LocUsers, r \in GateRequestIds : mounted /\ OpenDialog(u, r)
    \/ LocationEffect
    \/ DeliverLocationEvent
    \/ \E u \in Peers, r \in GateRequestIds, pos \in Positions :
          Room /\ UpsertLiveLocation(u, r, pos)
    \/ \E u \in LocUsers, r \in GateRequestIds : Room /\ UpsertLiveLocation(u, r, "here")
    \/ \E u \in Peers, r \in GateRequestIds : Room /\ StopLiveLocation(u, r)
    \/ \E u \in Peers, r \in GateRequestIds, pos \in Positions :
          Room /\ UpdatePosition(u, r, pos)
    \/ \E u \in LocUsers \cup Peers, r \in GateRequestIds, full \in BOOLEAN :
          Room /\ DeleteLiveLocation(u, r, full)
    \/ Wait

SpecObserve == InitLoc /\ [][NextObserve]_vars

\* the dialog's user opens, closes, hides and shows the page while the peer's
\* presence is written
NextPresence ==
    \/ \E u \in LocUsers, r \in GateRequestIds : mounted /\ OpenDialog(u, r)
    \/ mounted /\ CloseDialog
    \/ PresenceEffect
    \/ PresenceCleanup
    \/ VisibilityChange
    \/ \E k \in 1..Len(presenceWrites) :
          Len(presenceChannel) < MaxLocEvents /\ RunPresenceWrite(k)
    \/ DeliverPresenceEvent
    \/ \E u \in Peers, r \in GateRequestIds, b \in BOOLEAN :
          Len(presenceChannel) < MaxLocEvents /\ updatePresence(u, r, b)
    \/ Wait

SpecPresence == InitLoc /\ [][NextPresence]_vars

-----------------------------------------------------------------------------
(* The participants rule, stated over the tables *)

\* u is the receiver of request rid or the donor of its item
Participant(u, rid) ==
    \E r \in requests : /\ r.id = rid
                        /\ \/ r.receiver_id = u
                           \/ \E i \in items : i.id = r.item_id /\ i.donor_id = u

\* request rid exists and is accepted
Accepted(rid) == \E r \in requests : r.id = rid /\ r.status = "accepted"

\* the messages stored for conversation rid
Conversation(rid) == {m \in messages : m.request_id = rid}

\* a sequence of messages is in non-decreasing creation-time order
InTimeOrder(rows) ==
    \A j, k \in 1..Len(rows) : j < k => rows[j].created_at <= rows[k].created_at

\* no message id occurs twice in a sequence of messages
NoRepeatedId(rows) ==
    \A j, k \in 1..Len(rows) : rows[j].id = rows[k].id => j = k

-----------------------------------------------------------------------------
(* C6: sending *)

\* C6: a message insert for request r with sender s is accepted exactly when s
\* is the acting user, r exists and is accepted at that time, and s is r's
\* receiver or the donor of r's item; an accepted insert adds one row with
\* that sender and request, a refused one leaves the table as it was; and
\* every stored message's sender is a participant of its conversation.
C6_SendOnlyByParticipantOfAccepted ==
    /\ exchange.kind = "insert" =>
          LET s == exchange.sender_id
              r == exchange.request_id
          IN  /\ exchange.ok <=> (s = exchange.actor /\ Accepted(r) /\ Participant(s, r))
              /\ ~exchange.ok => messages = exchange.before
              /\ exchange.ok =>
                    /\ exchange.before \subseteq messages
                    /\ Cardinality(messages \ exchange.before) = 1
                    /\ \A m \in messages \ exchange.before :
                          m.sender_id = s /\ m.request_id = r
    /\ \A m \in messages : Participant(m.sender_id, m.request_id)

\* the receiver's send went through on an accepted request after the donor
\* had written, while a request of another user on the same item is pending
C6_Witness ==
    /\ exchange.kind = "insert"
    /\ exchange.ok
    /\ \E r \in requests : r.id = exchange.request_id /\ r.receiver_id = exchange.sender_id
    /\ \E m \in exchange.before : m.sender_id = item_donor_id(1)
    /\ \E r \in requests : r.status = "pending"

-----------------------------------------------------------------------------
(* C7: reading *)

\* the rows the read at hand returned
Seen == IF exchange.kind = "list" THEN Range(exchange.rows) ELSE exchange.rows

\* the operation at hand is a read of messages, presence or live locations
Reading == exchange.kind \in {"list", "presence", "locations"}

\* C7: a read of the messages, the presence records or the live-location
\* sessions of conversation r returns a row only to the receiver of r or the
\* donor of its item, and only while the request of r is accepted.
C7_ReadOnlyByParticipantOfAccepted ==
    (Reading /\ Seen # {}) =>
        /\ Accepted(exchange.request_id)
        /\ Participant(exchange.actor, exchange.request_id)
        /\ \A row \in Seen : row.request_id = exchange.request_id

\* the request was declined after both participants had written messages,
\* gone online and shared a position, and a participant's read got nothing
C7_Witness ==
    /\ Reading
    /\ Seen = {}
    /\ Participant(exchange.actor, exchange.request_id)
    /\ \E r \in requests : r.id = exchange.request_id /\ r.status = "declined"
    /\ \E m \in messages : m.request_id = exchange.request_id
    /\ \E p \in chat_presence : p.request_id = exchange.request_id /\ p.user_id # exchange.actor
    /\ \E l \in live_locations :
          /\ l.request_id = exchange.request_id
          /\ l.user_id # exchange.actor
          /\ l.is_sharing
          /\ l.expires_at >= now

-----------------------------------------------------------------------------
(* C8: listing *)

-----------------------------------------------------------------------------
(* C9 - C10: the dialog's message list *)

\* C9: the message list of an open dialog is in non-decreasing creation-time
\* order, whatever the interleaving of the list response and the events.
C9_LocalListInTimeOrder == dialog.open => InTimeOrder(dialogMessages)

\* C10: the message list of an open dialog never holds a message id twice.
C10_LocalListHasNoDuplicate == dialog.open => NoRepeatedId(dialogMessages)

-----------------------------------------------------------------------------
(* C11: marking as read *)

\* the message of this id before the call at hand
Before(id) == CHOOSE m \in exchange.before : m.id = id

\* C11: markRead by u on conversation r keeps the set of message ids, changes
\* no sender, request, content, type or creation time, never turns a read
\* flag off, leaves the messages sent by u and those of other conversations
\* as they were, and - u being a participant of the accepted request - leaves
\* every message of r not sent by u read; a second call right after the first
\* leaves the table as it was.
C11_MarkReadFlipsOnlyPeerFlags ==
    exchange.kind = "markRead" =>
        LET u == exchange.actor
            r == exchange.request_id
        IN  /\ {m.id : m \in messages} = {m.id : m \in exchange.before}
            /\ Cardinality(messages) = Cardinality(exchange.before)
            /\ \A n \in messages :
                  LET m == Before(n.id)
                  IN  /\ [n EXCEPT !.is_read = m.is_read] = m
                      /\ m.is_read => n.is_read
                      /\ (m.request_id # r \/ m.sender_id = u) => n = m
                      /\ (Accepted(r) /\ Participant(u, r)
                            /\ m.request_id = r /\ m.sender_id # u) => n.is_read
            /\ exchange.repeat => messages = exchange.before

\* a reader marked a conversation twice in which both participants had
\* written: the peer's message is read, the reader's own is not
C11_Witness ==
    /\ exchange.kind = "markRead"
    /\ exchange.repeat
    /\ \E m \in messages : /\ m.request_id = exchange.request_id
                           /\ m.sender_id # exchange.actor /\ m.is_read
    /\ \E m \in messages : /\ m.request_id = exchange.request_id
                           /\ m.sender_id = exchange.actor /\ ~m.is_read

-----------------------------------------------------------------------------
(* C12 - C13: the peer's session as the observing client shows it *)

\* the session a peer view was taken from is still live
LiveView(v) == v.isSharing /\ v.expiresAt > now

\* C12: whenever the observing client holds a peer view, or would put the
\* peer's live marker on the map, the session that view came from is sharing
\* and its expires_at is later than the current time.
C12_PeerViewOnlyWhileLive ==
    /\ \A v \in otherUserLocation : LiveView(v)
    /\ PeerMarker # {} => \A v \in otherUserLocation : LiveView(v)

\* C13: when the observing client has processed an event of its conversation:
\* for an INSERT or UPDATE of the other user's row the peer view is that row's
\* when the row is sharing and expires in the future, and empty when it is not
\* sharing or has expired by the time of handling; for a DELETE of the other user's row it is empty;
\* for any event of the client's own row it is what it was before.
C13_EventSetsOrClearsPeerView ==
    exchange.kind = "event" =>
        LET payload == exchange.payload
            own == payload.owner = dialog.currentUserId
        IN  /\ own => otherUserLocation = exchange.before
            /\ (~own /\ payload.event = "DELETE") => otherUserLocation = {}
            /\ (~own /\ payload.event # "DELETE") =>
                  \A data \in payload.new :
                     IF data.is_sharing /\ data.expires_at > exchange.at
                     THEN otherUserLocation = {PeerView(data)}
                     ELSE otherUserLocation = {}

-----------------------------------------------------------------------------
(* C14 - C19: the sharing client *)

\* the (user, conversation) pairs that have a row
Pairs(rows) == {<<l.user_id, l.request_id>> : l \in rows}

\* the row of rows for the pair of l
SamePair(rows, l) ==
    CHOOSE m \in rows : m.user_id = l.user_id /\ m.request_id = l.request_id

\* C14: after a position fix of the continuous watch has been handled, the
\* table holds the same sessions as before, each with the expires_at and
\* is_sharing it had; only the position of the watch's own (user, conversation)
\* row may differ.
C14_WatchWritesPositionOnly ==
    exchange.kind = "move" =>
        /\ Pairs(live_locations) = Pairs(exchange.before)
        /\ Cardinality(live_locations) = Cardinality(exchange.before)
        /\ \A l \in live_locations :
              LET m == SamePair(exchange.before, l)
              IN  /\ l.is_sharing = m.is_sharing
                  /\ l.expires_at = m.expires_at
                  /\ [l EXCEPT !.position = m.position] = m
                  /\ (l.user_id # exchange.watch.user_id
                         \/ l.request_id # exchange.watch.request_id) => l = m

\* a fix of the watch has moved a session that had already expired, and one
\* that had been stopped
C14_Witness ==
    /\ exchange.kind = "move"
    /\ \E l \in live_locations :
          /\ l \notin exchange.before
          /\ l.expires_at < exchange.at
          /\ ~l.is_sharing

\* the watches of the dialog's user on the dialog's conversation that are active
OwnWatches ==
    {w \in watches : w.user_id = dialog.currentUserId /\ w.request_id = dialog.requestId}

\* C15: when stopSharing has returned, with or without an error from the
\* write, no position watch of the client on the session is active.
C15_StopReleasesEveryWatch ==
    exchange.kind = "stop" => OwnWatches = {}

C17_StartResolvesTrueOnlyWithSession ==
    exchange.kind = "start" =>
        IF exchange.ok
        THEN \E row \in exchange.row :
                /\ row \in live_locations
                /\ row.is_sharing
                /\ row.expires_at = exchange.at + SharingDuration
                /\ \A l \in live_locations :
                      (l.user_id = row.user_id /\ l.request_id = row.request_id) => l = row
                /\ Others(live_locations, row) = Others(exchange.before.rows, row)
        ELSE /\ live_locations = exchange.before.rows
             /\ isSharing = exchange.before.isSharing
             /\ watches = exchange.before.watches
             /\ fixes = exchange.before.fixes
             /\ exchange.cause \in {"unsupported", "fix", "upsert"}

\* a start has resolved false after its fix came and the upsert was refused:
\* the flag is off, no watch is active, no position request is waiting
C17_Witness ==
    /\ exchange.kind = "start"
    /\ ~exchange.ok
    /\ exchange.cause = "upsert"
    /\ ~isSharing
    /\ watches = {}
    /\ fixes = <<>>

\* the client is in the Sharing state on a session whose expires_at has come
SharingPastExpiry ==
    /\ mounted
    /\ isSharing
    /\ \E l \in live_locations :
          /\ l.user_id = dialog.currentUserId
          /\ l.request_id = dialog.requestId
          /\ now >= l.expires_at

\* C18: a client that is sharing when its session's expires_at has come gets,
\* with no step of the user needed, to a state where the sharing flag is off
\* and none of its watches is active.
C18_ExpiryEndsSharing ==
    SharingPastExpiry ~> (~isSharing /\ OwnWatches = {})

\* C19: while the dialog is closed or unmounted no position watch is active,
\* and when stopSharing has returned no watch is active, however many
\* startSharing calls went before.
C19_NoWatchOutlivesDialog ==
    /\ (~dialog.open \/ ~mounted) => watches = {}
    /\ exchange.kind = "stop" => watches = {}

-----------------------------------------------------------------------------
(* C20: one row per (user, conversation) *)

\* the rows of a table for one (user, conversation) pair
RowsOf(rows, u, r) == {x \in rows : x.user_id = u /\ x.request_id = r}

\* C20: after any sequence of presence updates, session starts, position
\* updates and stops by any users, chat_presence and live_locations each hold
\* at most one row for every (user, conversation) pair.
C20_OneRowPerUserAndConversation ==
    \A u \in Users, r \in RequestIds :
        /\ Cardinality(RowsOf(chat_presence, u, r)) <= 1
        /\ Cardinality(RowsOf(live_locations, u, r)) <= 1

\* a pair's session row was written at the last instant and stopped after it,
\* its presence row was written at that instant as offline, and another user
\* has a session in the same conversation
C20_Witness ==
    \E u \in Users, r \in RequestIds :
        /\ \E l \in RowsOf(live_locations, u, r) :
              /\ l.expires_at = MaxTime + SharingDuration
              /\ l.position = "there"
              /\ ~l.is_sharing
        /\ \E q \in RowsOf(chat_presence, u, r) : q.last_seen = MaxTime /\ ~q.is_online
        /\ \E v \in Users \ {u} : RowsOf(live_locations, v, r) # {}

-----------------------------------------------------------------------------
(* The presence and location tables under any statement a signed-in user can send *)

Verbs == {"insert", "upsert", "update", "delete"}

\* a table of rows keyed by (user_id, request_id) after one statement of actor
\* under its row-level policies Own (INSERT WITH CHECK, UPDATE and DELETE
\* USING, which an UPDATE without WITH CHECK also applies to the new row) and
\* View (SELECT, applied to a statement that reads columns: upsert, update and
\* delete with filters). insert and upsert send row; update sets the columns
\* of row, with user_id = to, on the rows with row's key; delete removes them. A refused statement or one
\* that breaks UNIQUE(user_id, request_id) leaves the table as it was
Written(actor, verb, table, rows, row, to) ==
    LET Own(uid, q) == IF table = "chat_presence" THEN OwnPresencePolicy(uid, q)
                       ELSE OwnLocationPolicy(uid, q)
        View(uid, q) == IF table = "chat_presence" THEN ViewPresencePolicy(uid, q)
                        ELSE ViewLocationPolicy(uid, q)
        reached == {q \in rows : /\ q.user_id = row.user_id
                                 /\ q.request_id = row.request_id
                                 /\ Own(actor, q)
                                 /\ View(actor, q)}
        moved == {[row EXCEPT !.user_id = to] : q \in reached}
    IN  CASE verb = "insert" ->
               IF Own(actor, row) /\ Others(rows, row) = rows THEN rows \cup {row} ELSE rows
          [] verb = "upsert" ->
               IF Own(actor, row) /\ View(actor, row) THEN Others(rows, row) \cup {row} ELSE rows
          [] verb = "update" ->
               IF /\ \A q \in moved : Own(actor, q)
                  /\ \A q \in moved : Others(rows \ reached, q) = rows \ reached
               THEN (rows \ reached) \cup moved ELSE rows
          [] OTHER -> rows \ reached

\* actor sends a statement on chat_presence or live_locations for the key
\* (owner, rid) through the REST interface
ApiWrite(actor, table, verb, owner, rid, to, val) ==
    /\ LET presence == Written(actor, verb, "chat_presence", chat_presence,
                               [user_id |-> owner, request_id |-> rid,
                                is_online |-> val, last_seen |-> now], to)
           locations == Written(actor, verb, "live_locations", live_locations,
                                SessionRow(owner, rid, IF val THEN "here" ELSE "there"), to)
       IN  /\ chat_presence' = IF table = "chat_presence" THEN presence ELSE chat_presence
           /\ live_locations' = IF table = "live_locations" THEN locations ELSE live_locations
           /\ presenceChannel' = presenceChannel \o PresenceFeed(chat_presence' \ chat_presence)
           /\ locChannel' = locChannel \o
                 LocationFeed(IF verb = "insert" THEN "INSERT" ELSE "UPDATE",
                              live_locations' \ live_locations, {})
    /\ exchange' = [kind |-> "api", actor |-> actor, table |-> table, verb |-> verb,
                    before |-> IF table = "chat_presence" THEN chat_presence
                               ELSE live_locations]
    /\ UNCHANGED <<items, requests, push_subscriptions, vapidConfigured,
                   messages, notifications, now, dialogVars,
                   mounted, isSharing, otherUserLocation, currentLocation, watchIdRef,
                   watches, fixes, locSubscribed,
                   otherUserPresence, presenceSubscribed, presenceWrites, hidden>>

Tables == {"chat_presence", "live_locations"}

NextApi ==
    \E actor \in Users, table \in Tables, verb \in Verbs, owner \in Users,
       rid \in GateRequestIds, to \in Users, val \in BOOLEAN :
          /\ verb # "update" => to = owner
          /\ verb = "delete" \/ table = "live_locations" => val
          /\ ApiWrite(actor, table, verb, owner, rid, to, val)

SpecApi == InitLoc /\ [][NextApi]_vars

-----------------------------------------------------------------------------
(* notifyUser: the in-app record, then the push call *)

\* most rows of public.notifications
MaxNotifications == 2

\* a catch block that logs the error and throws it again
UncaughtRethrown(threw) == threw

\* what leaves a try { ... } catch (error) { console.error(...) } block whose
\* body threw: the catch logs and falls through
Uncaught(threw) == FALSE

\* notifyUser(data) is called by the signed-in user; the call is now at
\* await createNotification(data)
notifyUser(caller, userId, title, sendPush) ==
    /\ exchange = Idle
    /\ Cardinality(notifications) < MaxNotifications
    /\ exchange' = [kind |-> "notify", pc |-> "createNotification", caller |-> caller,
                    data |-> [userId |-> userId, title |-> title, sendPush |-> sendPush],
                    log |-> <<>>, raised |-> FALSE, response |-> {},
                    before |-> notifications]
    /\ UNCHANGED <<items, requests, push_subscriptions, vapidConfigured, chatVars, dialogVars,
                   locVars, presVars>>

\* createNotification: the insert ("System can create notifications" WITH CHECK
\* (true)) stores the row unless the call fails; an error is thrown inside the
\* try and caught; notifyUser goes on to data.sendPush !== false
createNotification(fails) ==
    /\ exchange # Idle
    /\ exchange.pc = "createNotification"
    /\ notifications' =
          IF fails THEN notifications
          ELSE notifications \cup
                  {[id |-> Cardinality(notifications) + 1, user_id |-> exchange.data.userId,
                    type |-> "request_received", related_request_id |-> 0,
                    related_item_id |-> 0]}
    /\ exchange' = [exchange EXCEPT
                       !.log = Append(@, [stage |-> "record", ok |-> ~fails]),
                       !.raised = Uncaught(fails),
                       !.pc = IF Uncaught(fails) \/ ~exchange.data.sendPush
                              THEN "return" ELSE "sendPushNotification"]
    /\ UNCHANGED <<items, requests, push_subscriptions, vapidConfigured,
                   messages, chat_presence, live_locations, now, dialogVars, locVars, presVars>>

\* sendPushNotification([data.userId], data.title, data.message, url):
\* supabase.functions.invoke under the caller's token, the edge function
\* handles the request; { error } or a thrown error is logged
sendPushNotification(answer, threw) ==
    /\ exchange # Idle
    /\ exchange.pc = "sendPushNotification"
    /\ \A e \in Endpoints :
          (\A q \in push_subscriptions : q.endpoint # e) => answer[e] = "ok"
    /\ LET req == [auth |-> Header("bearer", exchange.caller),
                   payload |-> Payload(exchange.data.title, TextVal("string", 1), TRUE,
                                       <<Entry(exchange.data.userId, "uuid")>>, NoUser)]
           response == HandlePush(req, answer)
       IN  /\ push_subscriptions' = IF threw THEN push_subscriptions
                                    ELSE AfterCleanup(response.attempts)
           /\ exchange' = [exchange EXCEPT
                              !.log = Append(@, [stage |-> "push",
                                                 ok |-> ~threw /\ response.status = 200]),
                              !.response = IF threw THEN {} ELSE {response.status},
                              !.raised = Uncaught(threw \/ response.status # 200),
                              !.pc = "return"]
    /\ UNCHANGED <<items, requests, vapidConfigured, chatVars, dialogVars, locVars, presVars>>

\* the texts a caller passes as title: within the limit and over it
NotifyTitles == {TextVal("string", 1), TextVal("string", MAX_TITLE_LENGTH + 1)}

NextNotify ==
    \/ \E u \in Users, e \in Endpoints : subscribe(u, e)
    \/ \E u \in Users, e \in Endpoints : unsubscribe(u, e)
    \/ \E c \in Users, u \in Users, t \in NotifyTitles, p \in BOOLEAN : notifyUser(c, u, t, p)
    \/ \E fails \in BOOLEAN : createNotification(fails)
    \/ \E answer \in [Endpoints -> Outcomes], threw \in BOOLEAN :
          sendPushNotification(answer, threw)
    \/ exchange # Idle /\ exchange.pc = "return" /\ Return

SpecNotify == InitDeliver /\ [][NextNotify]_vars

-----------------------------------------------------------------------------
(* Presence as the dialog shows it *)

\* the age of last_seen past which a record without a newer write counts as dead
StaleTimeout == 1

\* ChatHeader isOnline={otherUserPresence.isOnline}: the header of an open
\* dialog shows the peer as online
ShownOnline == dialog.open /\ otherUserPresence.isOnline

\* C21: an observing client does not show its peer as online once the peer's
\* last_seen is older than the staleness timeout, whether or not an offline
\* update was ever written
C21_StalePeerNotShownOnline ==
    ShownOnline => \A t \in otherUserPresence.lastSeen : now - t <= StaleTimeout

-----------------------------------------------------------------------------
(* notifyUser *)

Notifying == exchange # Idle /\ exchange.kind = "notify"

Stages(log) == [k \in 1..Len(log) |-> log[k].stage]

\* C22: notifyUser tries the in-app record before the push call; a failed
\* insert does not keep the push call from being made when sendPush is not
\* false, a rejected or failed push call leaves the record as the first stage
\* left it, and no combination of failures raises an error to the caller
C22_RecordThenPushIsolated ==
    Notifying =>
        /\ ~exchange.raised
        /\ exchange.log # <<>> => exchange.log[1].stage = "record"
        /\ Len(exchange.log) >= 1 =>
              IF exchange.log[1].ok
              THEN /\ Cardinality(notifications) = Cardinality(exchange.before) + 1
                   /\ exchange.before \subseteq notifications
              ELSE notifications = exchange.before
        /\ exchange.pc = "return" =>
              Stages(exchange.log) = IF exchange.data.sendPush
                                     THEN <<"record", "push">> ELSE <<"record">>

\* a call whose insert failed and whose push call was rejected has returned
C22_Witness ==
    /\ Notifying
    /\ exchange.pc = "return"
    /\ Len(exchange.log) = 2
    /\ ~exchange.log[1].ok
    /\ exchange.response = {403}

-----------------------------------------------------------------------------
(* The send loop and its response *)

\* the push call at hand passed the gate
PassedGate == Pushed /\ exchange.status = 200

\* the registrations of the authorized users as the call found them
RegistrationsAsked ==
    {q \in exchange.before : q.user_id \in Range(exchange.authorizedUserIds)}

\* C23: in a push call that passes the gate every registration of every
\* authorized user gets exactly one delivery attempt whatever the earlier
\* attempts answered, and the response reports success = true, sent + failed =
\* the number of attempts, authorized = the size of the authorized subset and
\* total = the number of requested targets
C23_EveryRegistrationTriedAndCounted ==
    PassedGate =>
        /\ \A q \in RegistrationsAsked :
              Cardinality({k \in 1..Len(exchange.attempts) : exchange.attempts[k].row = q}) = 1
        /\ \A k \in 1..Len(exchange.attempts) : exchange.attempts[k].row \in RegistrationsAsked
        /\ exchange.success
        /\ {"success", "sent", "failed", "authorized", "total"} \subseteq exchange.fields
        /\ exchange.sent + exchange.failed = Len(exchange.attempts)
        /\ exchange.authorized = Cardinality(Range(exchange.authorizedUserIds))
        /\ exchange.total = Len(Targets(exchange.req.payload))

\* C24: after a push call a stored registration has been deleted exactly when
\* a delivery attempt to that registration in this call failed with 410 or 404;
\* every other registration, those of users that were not authorized recipients
\* included, is left as it was
C24_DeletedIffAttemptExpired ==
    Pushed =>
        /\ push_subscriptions \subseteq exchange.before
        /\ \A q \in exchange.before :
              (q \notin push_subscriptions) <=>
                 \E k \in 1..Len(exchange.attempts) :
                     exchange.attempts[k].row = q /\ Expired(exchange.attempts[k].outcome)

-----------------------------------------------------------------------------
(* Whose rows a statement changes *)

\* the table the statement at hand was sent to, as it is now
TableNow == IF exchange.table = "chat_presence" THEN chat_presence ELSE live_locations

\* the rows the statement at hand created, changed or removed
Touched == (exchange.before \ TableNow) \cup (TableNow \ exchange.before)

\* C25: no insert, upsert, update or delete lets a user create, modify or
\* delete another user's presence record or live-location session: every row a
\* statement changes has the acting user as its user_id
C25_WritesOnlyOwnRows ==
    exchange.kind = "api" => \A q \in Touched : q.user_id = exchange.actor

\* an update went through while the table held a row of another user
C25_Witness ==
    /\ exchange.kind = "api"
    /\ exchange.verb = "update"
    /\ Touched # {}
    /\ \E q \in exchange.before : q.user_id # exchange.actor

-----------------------------------------------------------------------------
(* Presence writes in flight *)

\* the presence record stored for the dialog's user and conversation
OwnPresence ==
    {q \in chat_presence : /\ q.user_id = dialog.currentUserId
                           /\ q.request_id = dialog.requestId}

\* every presence write the client issued has been applied by the store
WritesApplied == dialog.currentUserId # NoUser /\ presenceWrites = <<>>

\* C26: once the user has closed the conversation and every presence write
\* they issued has been applied, the stored record has is_online = false; once
\* the last transition was opening the conversation or the page becoming
\* visible and every write has been applied, it has is_online = true
C26_LastTransitionWins ==
    /\ WritesApplied /\ ~dialog.open /\ ~presenceSubscribed
          => \A q \in OwnPresence : ~q.is_online
    /\ WritesApplied /\ dialog.open /\ presenceSubscribed /\ ~hidden
          => \A q \in OwnPresence : q.is_online

-----------------------------------------------------------------------------
(* What reaches the local list *)

\* the open dialog has nothing left on its way: the channel has joined, no
\* list call is pending and no event is queued
DialogSettled == dialog.open /\ subscribed /\ fetches = <<>> /\ channel = <<>>

\* the ids in the local list
LocalIds == {dialogMessages[k].id : k \in 1..Len(dialogMessages)}

\* C27: every message stored for the conversation of an open dialog ends up
\* in that client's local list: once the list response has been applied and
\* the events have been delivered, no stored message is missing, one that an
\* event delivered before the list response was applied included
C27_StoredMessageReachesLocalList ==
    DialogSettled =>
        \A m \in messages : m.request_id = dialog.requestId => m.id \in LocalIds

-----------------------------------------------------------------------------
(* Whose rows a conversation holds *)

\* C28: every presence record and every live-location session stored for a
\* conversation belongs to one of its two participants, the receiver of the
\* request or the donor of its item, so that the peer a participant is shown
\* is the other participant and never a third user
C28_RowsBelongToParticipants ==
    /\ \A q \in chat_presence : Participant(q.user_id, q.request_id)
    /\ \A l \in live_locations : Participant(l.user_id, l.request_id)

-----------------------------------------------------------------------------
(* The sharing flag and the session it describes *)

\* the stored session of the dialog's user for its conversation is on and not expired
OwnSessionLive ==
    \E l \in live_locations : /\ l.user_id = dialog.currentUserId
                              /\ l.request_id = dialog.requestId
                              /\ l.is_sharing
                              /\ l.expires_at > now

\* C29: the local sharing flag agrees with the session it describes:
\* isSharing = true implies an active position watch of this client and a
\* stored row for (user, conversation) with is_sharing = true that is not
\* expired; isSharing = false implies that no watch of this client is active
C29_SharingFlagAgreesWithSession ==
    /\ isSharing => OwnWatches # {} /\ OwnSessionLive
    /\ ~isSharing => OwnWatches = {}

-----------------------------------------------------------------------------
(* The notification of a new message *)

\* the message the insert at hand stored
Inserted == messages \ exchange.before

\* the notifications made for message m
NotificationsOf(m) == {n \in notifications : n.id = m.id}

====
